---- MODULE Spec2Model ----
(***************************************************************************)
(* Internet uplink monitor: the server-side Monitor (src/monitor.mjs with  *)
(* src/server.mjs and src/unifi.mjs), the standalone unifi-monitor.mjs     *)
(* loop, and the dashboard's WebSocket observer.                           *)
(*                                                                         *)
(* The specifications share this module, one per program part:            *)
(*   Spec      the server: Monitor.tick driven by the startup call and the *)
(*             setInterval timer, Monitor.setState / pushHistory, onChange *)
(*   SpecAnyOk the same with OK_AFTER_SUCCESSES drawn from a set           *)
(*   SpecWan   the WAN reconciliation of one cycle as a function of the    *)
(*             controller's answers (pickGateway, readWanUp,               *)
(*             readWanStatusFromGroups and the override in Monitor.tick)   *)
(*   SpecMain  unifi-monitor.mjs: main loop and HealthStateMachine         *)
(*   SpecObs   the observer: connectWs, ws handlers, scheduleReconnect     *)
(* Each specification leaves the other parts' variables untouched.         *)
(***************************************************************************)
EXTENDS Integers, Sequences, FiniteSets, TLC

VARIABLES
    \* ---- server (Monitor + server.mjs) ----
    state,        \* Monitor.state
    fail,         \* Monitor.fail
    succ,         \* Monitor.succ
    okAfterSucc,  \* Monitor.okAfterSucc (OK_AFTER_SUCCESSES)
    history,      \* Monitor.history, newest first
    inflight,     \* the Monitor.tick calls that are suspended at an await
    started,      \* number of ticks started so far; also the clock read by iso()
    ret,          \* value returned by the Monitor.tick that completed last
    audit,        \* records appended to the event log by appendEvent
    sent,         \* messages handed to broadcast() by the handler that ran last
    inserted,     \* trace: the ts of the entries pushed, in the order of the pushes
    proc,         \* the server's Node process: "running" or "exited"
    wsClient,     \* an observer's socket as the server holds it, and what it was sent
    \* ---- WAN reconciliation of one cycle ----
    rcIn,         \* the controller's answers of the cycle
    rcOut,        \* the reconciled verdict
    \* ---- unifi-monitor.mjs ----
    smState,           \* HealthStateMachine.state
    failCount,         \* HealthStateMachine.failCount
    successCount,      \* HealthStateMachine.successCount
    lastNotifiedState, \* main: lastNotifiedState
    alerts,            \* payloads handed to postWebhook, oldest first
    mainTrace,         \* trace: the cycles main has run
    \* ---- observer (dashboard page) ----
    obsData,      \* React state `data`: NoData or [state, history]
    wsStatus,     \* React state `wsStatus`
    wsRetry,      \* wsRetryRef.current
    sock,         \* the WebSocket of wsRef: "none", "connecting", "open"
    timer,        \* delays of the reconnect timeouts still pending, oldest first
    alive,        \* aliveRef.current
    loads,        \* number of load() calls whose fetch has not answered yet
    lastTickAt,   \* lastTickAtRef.current
    lastEv,       \* trace: what the observer handler that ran last did
    lastDelay,    \* trace: the last two delays scheduled since the last open
    openedAt,     \* trace: wsRetryRef.current when onopen last ran, -1 before
    \* ---- unifi-monitor.mjs: UniFiClient ----
    cmode,             \* UniFiClient.mode: "auto", "unifios" or "legacy"
    cookie,            \* UniFiClient.cookie: "" or the session cookie
    effectiveMode,     \* UniFiClient.effectiveMode: "null", "unifios" or "legacy"
    baseUrlEffective,  \* UniFiClient.baseUrlEffective: "null", "base" or "base8443"
    call,              \* the request() call in progress: where it stands, its counters
    lastLogin,         \* trace: the ensureLogin() that logged in last
    lastCall,          \* trace: how the request() that ended last ended
    \* ---- functions checked on their own ----
    clients,      \* server.mjs `clients`: the sockets, in the order they were added
    bcLast,       \* trace: the broadcast that ran last
    prIn,         \* the probe targets configured and what each answers
    prOut,        \* what the probe returned and the targets it fetched
    pg,           \* getAllDevices(): the collection served, the loop's position, its pages
    par           \* main's Promise.all: the two requests on the one client, and its logins

srvVars  == <<state, fail, succ, okAfterSucc, history, inflight, started, ret,
              audit, sent, inserted, proc, wsClient>>
wanVars  == <<rcIn, rcOut>>
mainVars == <<smState, failCount, successCount, lastNotifiedState, alerts, mainTrace>>
obsVars  == <<obsData, wsStatus, wsRetry, sock, timer, alive, loads, lastTickAt,
              lastEv, lastDelay, openedAt>>
cliVars  == <<cmode, cookie, effectiveMode, baseUrlEffective, call, lastLogin, lastCall>>
fnVars   == <<clients, bcLast, prIn, prOut, pg, par>>
vars     == <<srvVars, wanVars, mainVars, obsVars, cliVars, fnVars>>

(***************************************************************************)
(* Bounds of the model                                                     *)
(***************************************************************************)
MaxTicks     == 4   \* ticks started in one behaviour (startup tick included)
MaxInFlight  == 2   \* ticks suspended at the same time
maxHistory   == 2   \* Monitor.maxHistory, scaled down (MAX_HISTORY, default 300)
MaxCycles    == 4   \* cycles of the unifi-monitor.mjs loop
ObsCap       == 2   \* observer-side history cap, scaled down (slice(0, 250))
MaxLoads     == 1   \* load() calls of the observer waiting for their answer
MaxSends     == 3   \* fetches one request() call of UniFiClient may send
MaxObservers == 2   \* sockets in `clients` at the same time
MaxBroadcasts == 2  \* broadcasts in one behaviour of the broadcast specification
MaxTargets   == 3   \* probe targets configured (PROBE_URLS)
MaxDevices   == 6   \* devices of the site the listing is paged over
limit        == 2   \* page size of getAllDevices, scaled down (const limit = 200)
MaxRounds    == 2   \* passes of main's loop in the specification of its parallel requests

(***************************************************************************)
(* Program constants                                                       *)
(***************************************************************************)
degradedAfterFails == 2      \* DEGRADED_AFTER_FAILS default
downAfterFails     == 4      \* DOWN_AFTER_FAILS default
okAfterSuccDefault == 2      \* OK_AFTER_SUCCESSES default
PROBE_FAILS_FOR_DEGRADED == 2
PROBE_SUCCESSES_FOR_OK   == 2
RetryCap  == 8               \* Math.min(8, wsRetryRef.current + 1)
BaseDelay == 500             \* 500 * 2 ** attempt
MaxDelay  == 15000           \* Math.min(15000, ...)
NoPriority == 9999           \* priority of a group without a numeric one

(***************************************************************************)
(* Values.  JavaScript's true / false / null-or-undefined of a field that  *)
(* the code tests with typeof v === "boolean" is one of three strings; an  *)
(* optional number is <<>> (absent) or <<n>>.                              *)
(***************************************************************************)
Tri == {"true", "false", "null"}
IsBool(v) == v \in {"true", "false"}
None == <<>>
Some(n) == <<n>>

Min(a, b) == IF a <= b THEN a ELSE b

RECURSIVE Pow2(_)
Pow2(n) == IF n = 0 THEN 1 ELSE 2 * Pow2(n - 1)

\* Array.prototype.find: the first element of s among the positions `hits`
\* (those satisfying the callback), or <<>> for undefined
Find(s, hits) ==
    IF hits = {} THEN None
    ELSE Some(s[CHOOSE i \in hits : \A j \in hits : i <= j])

\* the first value of a list of candidates that is a boolean, else "null"
RECURSIVE FirstBoolFrom(_, _)
FirstBoolFrom(s, i) ==
    IF i > Len(s) THEN "null"
    ELSE IF IsBool(s[i]) THEN s[i]
    ELSE FirstBoolFrom(s, i + 1)
FirstBool(s) == FirstBoolFrom(s, 1)


(***************************************************************************)
(* Strings that the code inspects (toUpperCase, toLowerCase, includes) are *)
(* sequences of one-character strings.                                     *)
(***************************************************************************)
UpperAlpha == <<"A","B","C","D","E","F","G","H","I","J","K","L","M",
                "N","O","P","Q","R","S","T","U","V","W","X","Y","Z">>
LowerAlpha == <<"a","b","c","d","e","f","g","h","i","j","k","l","m",
                "n","o","p","q","r","s","t","u","v","w","x","y","z">>

MapChar(c, from, to) ==
    IF \E i \in 1..Len(from) : from[i] = c
    THEN to[CHOOSE i \in 1..Len(from) : from[i] = c]
    ELSE c
toUpperCase(s) == [i \in 1..Len(s) |-> MapChar(s[i], LowerAlpha, UpperAlpha)]
toLowerCase(s) == [i \in 1..Len(s) |-> MapChar(s[i], UpperAlpha, LowerAlpha)]

\* String.prototype.includes
includes(s, sub) ==
    \E i \in 0..(Len(s) - Len(sub)) :
        \A j \in 1..Len(sub) : s[i + j] = sub[j]

sUSG     == <<"U","S","G">>
sWAN     == <<"W","A","N">>
swan     == <<"w","a","n">>
sgateway == <<"g","a","t","e","w","a","y">>
UpWords   == { <<"u","p">>, <<"o","n","l","i","n","e">>,
               <<"c","o","n","n","e","c","t","e","d">>, <<"o","k">> }
DownWords == { <<"d","o","w","n">>, <<"o","f","f","l","i","n","e">>,
               <<"d","i","s","c","o","n","n","e","c","t","e","d">>,
               <<"n","o","_","l","i","n","k">> }

(***************************************************************************)
(* src/unifi.mjs: gateway selection and the WAN signal of the device       *)
(***************************************************************************)
IsTypeGateway(d)  == d.type = "gateway"
IsModelUSG(d)     == includes(toUpperCase(d.model), sUSG)
IsNameUSG(d)      == includes(toUpperCase(d.name), sUSG)
IsLineGateway(d)  == includes(toLowerCase(d.productLine), sgateway)

\* a selection that takes the first device matching by type or, when no
\* type matches, by any of the three strings
pickGatewayMutListOrder(devices) ==
    LET byType == Find(devices, {i \in DOMAIN devices : IsTypeGateway(devices[i])})
        byAny  == Find(devices, {i \in DOMAIN devices :
                                    \/ IsModelUSG(devices[i])
                                    \/ IsNameUSG(devices[i])
                                    \/ IsLineGateway(devices[i])})
    IN  IF byType # None THEN byType ELSE byAny

\* pickGateway(devices): <<>> for null, else <<device>>
pickGateway(devices) ==
    LET byType  == Find(devices, {i \in DOMAIN devices : IsTypeGateway(devices[i])})
        byModel == Find(devices, {i \in DOMAIN devices : IsModelUSG(devices[i])})
        byName  == Find(devices, {i \in DOMAIN devices : IsNameUSG(devices[i])})
        byLine  == Find(devices, {i \in DOMAIN devices : IsLineGateway(devices[i])})
    IN  IF byType # None THEN byType
        ELSE IF byModel # None THEN byModel
        ELSE IF byName # None THEN byName
        ELSE byLine

\* the seven direct candidates of readWanUp, in the order of the code; the
\* first is gw.uplink.up, which an uplink array does not have
Direct(gw) ==
    << IF gw.uplink.kind = "object" THEN gw.uplink.up ELSE "null" >> \o gw.direct

IsWanUplink(x) == includes(toLowerCase(x.name), swan)

\* step 2 of readWanUp: uplink as an array
UplinkArraySignal(gw) ==
    IF gw.uplink.kind # "array" THEN "null"
    ELSE LET upl == gw.uplink.items
             f   == Find(upl, {i \in DOMAIN upl : IsWanUplink(upl[i])})
             wan == IF f # None THEN f ELSE IF Len(upl) > 0 THEN Some(upl[1]) ELSE None
         IN  IF wan = None THEN "null"
             ELSE FirstBool(<<wan[1].up, wan[1].linkUp, wan[1].connected>>)

isWanPort(p) ==
    \/ p.isWan = "true"
    \/ toLowerCase(p.role) = swan
    \/ includes(toLowerCase(p.name), swan)

\* the verdict of one port: its first boolean flag, else its status word
PortSignal(p) ==
    IF FirstBool(p.bools) # "null" THEN FirstBool(p.bools)
    ELSE IF toLowerCase(p.status) \in UpWords THEN "true"
    ELSE IF toLowerCase(p.status) \in DownWords THEN "false"
    ELSE "null"

RECURSIVE PortsSignalFrom(_, _)
PortsSignalFrom(cands, i) ==
    IF i > Len(cands) THEN "null"
    ELSE IF PortSignal(cands[i]) # "null" THEN PortSignal(cands[i])
    ELSE PortsSignalFrom(cands, i + 1)

\* step 3 of readWanUp: interfaces.ports
PortsSignal(gw) ==
    LET ports      == gw.ports
        wanPorts   == SelectSeq(ports, isWanPort)
        candidates == IF Len(wanPorts) > 0 THEN wanPorts ELSE ports
    IN  PortsSignalFrom(candidates, 1)

\* a reading that takes a missing gateway for a link that is down
readWanUpMutMissingIsDown(gw) ==
    IF gw = None THEN "false"
    ELSE IF FirstBool(Direct(gw[1])) # "null" THEN FirstBool(Direct(gw[1]))
    ELSE IF UplinkArraySignal(gw[1]) # "null" THEN UplinkArraySignal(gw[1])
    ELSE PortsSignal(gw[1])

\* readWanUp(gw), gw being <<>> (null) or <<device>>
readWanUp(gw) ==
    IF gw = None THEN "null"
    ELSE IF FirstBool(Direct(gw[1])) # "null" THEN FirstBool(Direct(gw[1]))
    ELSE IF UplinkArraySignal(gw[1]) # "null" THEN UplinkArraySignal(gw[1])
    ELSE PortsSignal(gw[1])

(***************************************************************************)
(* src/unifi.mjs: the WAN network groups                                   *)
(***************************************************************************)
IsIdWAN(g) == toUpperCase(g.id) = sWAN

\* a priority field that is there and holds null (JSON null): Number(null) is 0
NullValue == <<0, 0>>

\* Number.isFinite(Number(g.priority)) ? Number(g.priority) : 9999
\* (Number(undefined) is NaN, Number(null) is 0)
PrioOf(g) ==
    IF g.priority = None THEN NoPriority
    ELSE IF g.priority = NullValue THEN 0
    ELSE g.priority[1]

\* head of the stable sort by priority: the earliest entry of least priority
LowestPrio(groups) ==
    LET i == CHOOSE i \in 1..Len(groups) :
                 /\ \A j \in 1..Len(groups) : PrioOf(groups[i]) <= PrioOf(groups[j])
                 /\ \A j \in 1..(i - 1) : PrioOf(groups[j]) > PrioOf(groups[i])
    IN  groups[i]

\* pickPrimaryWanGroup(groups): <<>> for null, else <<group>>
pickPrimaryWanGroup(groups) ==
    LET byId == Find(groups, {i \in DOMAIN groups : IsIdWAN(groups[i])})
    IN  IF Len(groups) = 0 THEN None
        ELSE IF byId # None THEN byId
        ELSE Some(LowestPrio(groups))

\* readWanStatusFromGroups(groups)
readWanStatusFromGroups(groups) ==
    LET primary == pickPrimaryWanGroup(groups)
    IN  IF primary = None THEN [up |-> "null", primary |-> None]
        ELSE [up |-> IF primary[1].disabled THEN "false"
                     ELSE IF primary[1].uptime # None
                          THEN (IF primary[1].uptime[1] > 0 THEN "true" ELSE "false")
                     ELSE "null",
              primary |-> primary]

(***************************************************************************)
(* src/monitor.mjs, Monitor.tick lines 76-99: the verdict of the cycle     *)
(***************************************************************************)
\* the groups array taken out of the response, <<>> when there is none:
\* resp.wan_network_groups ?? resp.wanNetworkGroups ?? resp.data ?? resp-if-array
GroupsOf(resp) ==
    IF resp.err THEN None
    ELSE IF resp.shape \in {"wan_network_groups", "wanNetworkGroups", "data", "array"}
         THEN Some(resp.groups)
    ELSE None

\* wanUp after the override by the groups' status
OverrideByGroupsMutNullOnly(devUp, status) ==
    IF devUp = "null" /\ status.up # "null" THEN status.up ELSE devUp
OverrideByGroups(devUp, status) ==
    IF status.up # "null" THEN status.up ELSE devUp

tickWanUp(devRes, grpRes) ==
    LET devices == IF devRes.err THEN <<>> ELSE devRes.devices
        gw      == pickGateway(devices)
        devUp   == readWanUp(gw)
        groups  == GroupsOf(grpRes)
    IN  IF groups = None THEN devUp
        ELSE OverrideByGroups(devUp, readWanStatusFromGroups(groups[1]))


(***************************************************************************)
(* Answers of the controller that the model draws from                     *)
(***************************************************************************)
NoDirect  == <<"null", "null", "null", "null", "null", "null">>
NoUplink  == [kind |-> "none"]
NoBools   == <<"null", "null", "null", "null", "null">>

Dev(id, type, model, name, uplink, direct, ports) ==
    [id |-> id, type |-> type, model |-> model, name |-> name, productLine |-> <<>>,
     uplink |-> uplink, direct |-> direct, ports |-> ports]

Port(name, role, bools, status) ==
    [name |-> name, role |-> role, isWan |-> "null", bools |-> bools, status |-> status]

\* a gateway whose uplink object says up: false
dGwDown  == Dev("gw1", "gateway", <<"U","X","G">>, <<"g","w">>,
                [kind |-> "object", up |-> "false"], NoDirect, <<>>)
\* a gateway whose uplink object says up: true
dGwUp    == Dev("gw2", "gateway", <<"U","X","G">>, <<"g","w">>,
                [kind |-> "object", up |-> "true"], NoDirect, <<>>)
\* a gateway with no WAN signal at all
dGwMute  == Dev("gw3", "gateway", <<"U","X","G">>, <<"g","w">>, NoUplink, NoDirect, <<>>)
\* a gateway that only has gw.wanUp === false, the last direct candidate
dGwLast  == Dev("gw4", "gateway", <<"U","X","G">>, <<"g","w">>, NoUplink,
                <<"null", "null", "null", "null", "null", "false">>, <<>>)
\* a USG found by its model, uplink as an array: the LAN one up, the WAN one down
dUsgArr  == Dev("usg", "ugw", <<"u","s","g","-","3","p">>, <<"r","o","u","t","e","r">>,
                [kind |-> "array",
                 items |-> << [name |-> <<"l","a","n">>, up |-> "true",
                               linkUp |-> "null", connected |-> "null"],
                              [name |-> <<"W","A","N","1">>, up |-> "false",
                               linkUp |-> "null", connected |-> "null"] >>],
                NoDirect, <<>>)
\* a gateway that only has ports: a LAN port that is up and a WAN port DOWN
dGwPorts == Dev("gw5", "gateway", <<"U","D","M">>, <<"u","d","m">>, NoUplink, NoDirect,
                << Port(<<"e","t","h","0">>, <<"l","a","n">>,
                        <<"true", "null", "null", "null", "null">>, <<>>),
                   Port(<<"e","t","h","1">>, <<"W","A","N">>, NoBools,
                        <<"D","O","W","N">>) >>)
\* an access point
dAp      == Dev("ap1", "uap", <<"U","6">>, <<"a","p">>, NoUplink,
                <<"true", "null", "null", "null", "null", "null">>, <<>>)

\* a switch whose name, not its model, holds "usg"
dSwNamed == Dev("sw1", "usw", <<"U","S","8">>, <<"u","s","g","-","r","a","c","k">>,
                NoUplink, NoDirect, <<>>)
\* a USG known by its model only, uplink up
dUsgPro  == Dev("usg2", "router", <<"U","S","G","-","P","r","o">>, <<"c","o","r","e">>,
                [kind |-> "object", up |-> "true"], NoDirect, <<>>)
\* a console known by its product line only, uplink down
dLineGw  == [Dev("cg1", "console", <<"U","C","G">>, <<"c","g">>,
                 [kind |-> "object", up |-> "false"], NoDirect, <<>>)
                EXCEPT !.productLine = <<"C","l","o","u","d"," ","G","a","t","e","w","a","y">>]

DeviceLists ==
    { <<>>, <<dAp>>, <<dAp, dGwDown>>, <<dGwUp, dAp>>, <<dGwMute>>, <<dGwLast>>,
      <<dAp, dUsgArr>>, <<dGwPorts>>, <<dGwDown, dGwUp>>,
      <<dSwNamed>>, <<dSwNamed, dUsgPro>>, <<dLineGw, dSwNamed>>, <<dAp, dLineGw>>,
      <<dSwNamed, dGwUp>>, <<dUsgPro, dUsgArr>> }

DevicesResults ==
    { [err |-> TRUE, devices |-> <<>>] } \cup
    { [err |-> FALSE, devices |-> l] : l \in DeviceLists }

Group(id, priority, disabled, uptime) ==
    [id |-> id, priority |-> priority, disabled |-> disabled, uptime |-> uptime]

gWanUp   == Group(<<"W","A","N">>, Some(1), FALSE, Some(100))
gWanZero == Group(<<"w","a","n">>, Some(1), FALSE, Some(0))
gWanOff  == Group(<<"W","A","N">>, Some(1), TRUE, Some(100))
gWanMute == Group(<<"W","A","N">>, Some(1), FALSE, None)
gWan2Up  == Group(<<"W","A","N","2">>, Some(2), FALSE, Some(100))
gLteDown == Group(<<"L","T","E">>, Some(1), FALSE, Some(0))
gNoPrio  == Group(<<"X">>, None, FALSE, Some(100))
\* a group whose priority field is null, link down
gLteNull == Group(<<"L","T","E","2">>, NullValue, FALSE, Some(0))
\* a group whose priority is above the 9999 that stands for no priority
gBigPrio == Group(<<"V","P","N">>, Some(NoPriority + 1), FALSE, Some(0))

GroupLists ==
    { <<>>, <<gWanUp>>, <<gWanZero>>, <<gWanOff>>, <<gWanMute>>, <<gWan2Up, gWanUp>>,
      <<gWan2Up, gLteDown>>, <<gNoPrio, gWan2Up>>, <<gNoPrio>>,
      <<gWan2Up, gLteNull>>, <<gNoPrio, gBigPrio>>, <<gLteDown, gWan2Up, gLteNull>> }

GroupsResults ==
    { [err |-> TRUE, shape |-> "other", groups |-> <<>>],
      [err |-> FALSE, shape |-> "other", groups |-> <<>>],
      [err |-> FALSE, shape |-> "array", groups |-> <<gWanUp>>],
      [err |-> FALSE, shape |-> "wan_network_groups", groups |-> <<gWanZero>>] } \cup
    { [err |-> FALSE, shape |-> "data", groups |-> l] : l \in GroupLists }

NoVerdict == [done |-> FALSE, wanUp |-> "null", gateway |-> "none", usg |-> "none",
              primary |-> None]

(***************************************************************************)
(* SpecWan: the reconciliation applied to every pair of answers            *)
(***************************************************************************)
InitWanIdle == /\ rcIn = [dev |-> [err |-> TRUE, devices |-> <<>>],
                          grp |-> [err |-> TRUE, shape |-> "other", groups |-> <<>>]]
               /\ rcOut = NoVerdict

GatewayId(devRes) ==
    LET gw == pickGateway(IF devRes.err THEN <<>> ELSE devRes.devices)
    IN  IF gw = None THEN "none" ELSE gw[1].id

\* unifi-monitor.mjs, pickUSG(devices)
IsTypeUgw(d) == d.type = "ugw"

\* pickUSG(devices)
pickUSG(devices) ==
    LET byType  == Find(devices, {i \in DOMAIN devices : IsTypeUgw(devices[i])})
        byModel == Find(devices, {i \in DOMAIN devices : IsModelUSG(devices[i])})
    IN  IF byType # None THEN byType ELSE byModel

\* the same inventory given to pickUSG of the standalone loop
UsgId(devRes) ==
    LET usg == pickUSG(IF devRes.err THEN <<>> ELSE devRes.devices)
    IN  IF usg = None THEN "none" ELSE usg[1].id

\* `wan` of the cycle's entry: status.primary when the answer held a list
PrimaryOf(grpRes) ==
    IF GroupsOf(grpRes) = None THEN None
    ELSE readWanStatusFromGroups(GroupsOf(grpRes)[1]).primary

Reconcile ==
    /\ ~rcOut.done
    /\ rcOut' = [done |-> TRUE, wanUp |-> tickWanUp(rcIn.dev, rcIn.grp),
                 gateway |-> GatewayId(rcIn.dev), usg |-> UsgId(rcIn.dev),
                 primary |-> PrimaryOf(rcIn.grp)]
    /\ UNCHANGED rcIn
    /\ UNCHANGED <<srvVars, mainVars, obsVars, cliVars, fnVars>>


(***************************************************************************)
(* src/probe.mjs: what probeInternet() resolves to.  It catches every      *)
(* failure of a target, so it never rejects.                               *)
(***************************************************************************)
ProbeResults == { [ok |-> TRUE, ms |-> Some(5)], [ok |-> FALSE, ms |-> None] }

\* what one cycle can learn from the controller: the error of the device
\* listing (unifiError) and the reconciled wanUp
CycleOutcomes ==
    { [unifiError |-> d.err, wanUp |-> tickWanUp(d, g)] :
          d \in DevicesResults, g \in GroupsResults }

(***************************************************************************)
(* src/monitor.mjs: Monitor                                                *)
(***************************************************************************)
States == {"OK", "DEGRADED", "DOWN", "UNKNOWN"}

\* pushHistory(entry): unshift, then cut to maxHistory
pushHistoryMutNoCut(h, entry) == <<entry>> \o h
pushHistoryMutTwice(h, entry) ==
    LET u == <<entry, entry>> \o h
    IN  IF Len(u) > maxHistory THEN SubSeq(u, 1, maxHistory) ELSE u
pushHistory(h, entry) ==
    LET u == <<entry>> \o h
    IN  IF Len(u) > maxHistory THEN SubSeq(u, 1, maxHistory) ELSE u

\* Monitor.tick lines 111-167: the counters, the state and the reason of the
\* cycle, and whether the entry goes through setState or straight to pushHistory
Decision(f, s, next, reason, via, note) ==
    [fail |-> f, succ |-> s, next |-> next, reason |-> reason, via |-> via, note |-> note]

tickDecideMutKeepCounters(st, f, s, okAfter, wanUp, probeOk) ==
    IF wanUp = "false"
    THEN Decision(f, s, "DOWN", "WAN_LINK_DOWN", "setState", None)
    ELSE IF ~probeOk
    THEN IF f + 1 >= downAfterFails
         THEN Decision(f + 1, 0, "DOWN", "PROBE_DOWN", "setState", <<"failCount", f + 1>>)
         ELSE IF f + 1 >= degradedAfterFails
         THEN Decision(f + 1, 0, "DEGRADED", "PROBE_DEGRADED", "setState",
                       <<"failCount", f + 1>>)
         ELSE Decision(f + 1, 0, st, "PROBE_FAIL_SOFT", "pushHistory",
                       <<"failCount", f + 1>>)
    ELSE IF st = "UNKNOWN" \/ s + 1 >= okAfter
         THEN Decision(0, s + 1, "OK", "PROBE_OK", "setState", <<"okCount", s + 1>>)
         ELSE Decision(0, s + 1, st, "PROBE_OK_SOFT", "pushHistory", <<"okCount", s + 1>>)

tickDecideMutNoFastOk(st, f, s, okAfter, wanUp, probeOk) ==
    IF wanUp = "false"
    THEN Decision(0, 0, "DOWN", "WAN_LINK_DOWN", "setState", None)
    ELSE IF ~probeOk
    THEN IF f + 1 >= downAfterFails
         THEN Decision(f + 1, 0, "DOWN", "PROBE_DOWN", "setState", <<"failCount", f + 1>>)
         ELSE IF f + 1 >= degradedAfterFails
         THEN Decision(f + 1, 0, "DEGRADED", "PROBE_DEGRADED", "setState",
                       <<"failCount", f + 1>>)
         ELSE Decision(f + 1, 0, st, "PROBE_FAIL_SOFT", "pushHistory",
                       <<"failCount", f + 1>>)
    ELSE IF s + 1 >= okAfter
         THEN Decision(0, s + 1, "OK", "PROBE_OK", "setState", <<"okCount", s + 1>>)
         ELSE Decision(0, s + 1, st, "PROBE_OK_SOFT", "pushHistory", <<"okCount", s + 1>>)

tickDecideMutDegradedFirst(st, f, s, okAfter, wanUp, probeOk) ==
    IF wanUp = "false"
    THEN Decision(0, 0, "DOWN", "WAN_LINK_DOWN", "setState", None)
    ELSE IF ~probeOk
    THEN IF f + 1 >= degradedAfterFails
         THEN Decision(f + 1, 0, "DEGRADED", "PROBE_DEGRADED", "setState",
                       <<"failCount", f + 1>>)
         ELSE IF f + 1 >= downAfterFails
         THEN Decision(f + 1, 0, "DOWN", "PROBE_DOWN", "setState", <<"failCount", f + 1>>)
         ELSE Decision(f + 1, 0, st, "PROBE_FAIL_SOFT", "pushHistory",
                       <<"failCount", f + 1>>)
    ELSE IF st = "UNKNOWN" \/ s + 1 >= okAfter
         THEN Decision(0, s + 1, "OK", "PROBE_OK", "setState", <<"okCount", s + 1>>)
         ELSE Decision(0, s + 1, st, "PROBE_OK_SOFT", "pushHistory", <<"okCount", s + 1>>)

tickDecideMutStrict(st, f, s, okAfter, wanUp, probeOk) ==
    IF wanUp = "false"
    THEN Decision(0, 0, "DOWN", "WAN_LINK_DOWN", "setState", None)
    ELSE IF ~probeOk
    THEN IF f + 1 > downAfterFails
         THEN Decision(f + 1, 0, "DOWN", "PROBE_DOWN", "setState", <<"failCount", f + 1>>)
         ELSE IF f + 1 > degradedAfterFails
         THEN Decision(f + 1, 0, "DEGRADED", "PROBE_DEGRADED", "setState",
                       <<"failCount", f + 1>>)
         ELSE Decision(f + 1, 0, st, "PROBE_FAIL_SOFT", "pushHistory",
                       <<"failCount", f + 1>>)
    ELSE IF st = "UNKNOWN" \/ s + 1 >= okAfter
         THEN Decision(0, s + 1, "OK", "PROBE_OK", "setState", <<"okCount", s + 1>>)
         ELSE Decision(0, s + 1, st, "PROBE_OK_SOFT", "pushHistory", <<"okCount", s + 1>>)

\* a decision that enters DOWN at the threshold of DEGRADED
tickDecideMutDownEarly(st, f, s, okAfter, wanUp, probeOk) ==
    IF wanUp = "false"
    THEN Decision(0, 0, "DOWN", "WAN_LINK_DOWN", "setState", None)
    ELSE IF ~probeOk
    THEN IF f + 1 >= degradedAfterFails
         THEN Decision(f + 1, 0, "DOWN", "PROBE_DOWN", "setState", <<"failCount", f + 1>>)
         ELSE Decision(f + 1, 0, st, "PROBE_FAIL_SOFT", "pushHistory",
                       <<"failCount", f + 1>>)
    ELSE IF st = "UNKNOWN" \/ s + 1 >= okAfter
         THEN Decision(0, s + 1, "OK", "PROBE_OK", "setState", <<"okCount", s + 1>>)
         ELSE Decision(0, s + 1, st, "PROBE_OK_SOFT", "pushHistory", <<"okCount", s + 1>>)

\* a decision that counts a failure without clearing the successes
tickDecideMutNoReset(st, f, s, okAfter, wanUp, probeOk) ==
    IF wanUp = "false"
    THEN Decision(0, 0, "DOWN", "WAN_LINK_DOWN", "setState", None)
    ELSE IF ~probeOk
    THEN IF f + 1 >= downAfterFails
         THEN Decision(f + 1, s, "DOWN", "PROBE_DOWN", "setState", <<"failCount", f + 1>>)
         ELSE IF f + 1 >= degradedAfterFails
         THEN Decision(f + 1, s, "DEGRADED", "PROBE_DEGRADED", "setState",
                       <<"failCount", f + 1>>)
         ELSE Decision(f + 1, s, st, "PROBE_FAIL_SOFT", "pushHistory",
                       <<"failCount", f + 1>>)
    ELSE IF st = "UNKNOWN" \/ s + 1 >= okAfter
         THEN Decision(0, s + 1, "OK", "PROBE_OK", "setState", <<"okCount", s + 1>>)
         ELSE Decision(0, s + 1, st, "PROBE_OK_SOFT", "pushHistory", <<"okCount", s + 1>>)

\* a decision whose soft branches move the state: towards DEGRADED on a
\* failure, to OK on a success
tickDecideMutSoftMoves(st, f, s, okAfter, wanUp, probeOk) ==
    IF wanUp = "false"
    THEN Decision(0, 0, "DOWN", "WAN_LINK_DOWN", "setState", None)
    ELSE IF ~probeOk
    THEN IF f + 1 >= downAfterFails
         THEN Decision(f + 1, 0, "DOWN", "PROBE_DOWN", "setState", <<"failCount", f + 1>>)
         ELSE IF f + 1 >= degradedAfterFails
         THEN Decision(f + 1, 0, "DEGRADED", "PROBE_DEGRADED", "setState",
                       <<"failCount", f + 1>>)
         ELSE Decision(f + 1, 0, "DEGRADED", "PROBE_FAIL_SOFT", "setState",
                       <<"failCount", f + 1>>)
    ELSE IF st = "UNKNOWN" \/ s + 1 >= okAfter
         THEN Decision(0, s + 1, "OK", "PROBE_OK", "setState", <<"okCount", s + 1>>)
         ELSE Decision(0, s + 1, "OK", "PROBE_OK_SOFT", "setState", <<"okCount", s + 1>>)

tickDecide(st, f, s, okAfter, wanUp, probeOk) ==
    IF wanUp = "false"
    THEN Decision(0, 0, "DOWN", "WAN_LINK_DOWN", "setState", None)
    ELSE IF ~probeOk
    THEN IF f + 1 >= downAfterFails
         THEN Decision(f + 1, 0, "DOWN", "PROBE_DOWN", "setState", <<"failCount", f + 1>>)
         ELSE IF f + 1 >= degradedAfterFails
         THEN Decision(f + 1, 0, "DEGRADED", "PROBE_DEGRADED", "setState",
                       <<"failCount", f + 1>>)
         ELSE Decision(f + 1, 0, st, "PROBE_FAIL_SOFT", "pushHistory",
                       <<"failCount", f + 1>>)
    ELSE IF st = "UNKNOWN" \/ s + 1 >= okAfter
         THEN Decision(0, s + 1, "OK", "PROBE_OK", "setState", <<"okCount", s + 1>>)
         ELSE Decision(0, s + 1, st, "PROBE_OK_SOFT", "pushHistory", <<"okCount", s + 1>>)

\* the entry of a cycle.  In setState it is { ts: iso(), state: next, ...details }:
\* details carries the ts read at the start of the tick, which the spread puts
\* over the fresh iso(); the soft entries are { ...base, state } with the same ts
Entry(startTs, st, probe, outcome, d) ==
    [ts |-> startTs, state |-> st, probe |-> probe, wanUp |-> outcome.wanUp,
     unifiError |-> outcome.unifiError, reason |-> d.reason, note |-> d.note]

(***************************************************************************)
(* src/server.mjs: monitor.onChange and the tick message                   *)
(***************************************************************************)
\* the records onChange appends to the event log
onChangeAuditMutRestoreAny(prev, next, entry) ==
    IF next = "DOWN"
    THEN << [kind |-> "INTERNET_DOWN", prev |-> prev, next |-> next, note |-> entry.note] >>
    ELSE IF next = "OK"
    THEN << [kind |-> "INTERNET_RESTORED", prev |-> prev, next |-> next,
             note |-> entry.note] >>
    ELSE <<>>
onChangeAuditMutEveryFall(prev, next, entry) ==
    IF next # "OK"
    THEN << [kind |-> "INTERNET_DOWN", prev |-> prev, next |-> next, note |-> entry.note] >>
    ELSE IF prev = "DOWN" /\ next = "OK"
    THEN << [kind |-> "INTERNET_RESTORED", prev |-> prev, next |-> next,
             note |-> entry.note] >>
    ELSE <<>>
onChangeAudit(prev, next, entry) ==
    IF next = "DOWN"
    THEN << [kind |-> "INTERNET_DOWN", prev |-> prev, next |-> next, note |-> entry.note] >>
    ELSE IF prev = "DOWN" /\ next = "OK"
    THEN << [kind |-> "INTERNET_RESTORED", prev |-> prev, next |-> next,
             note |-> entry.note] >>
    ELSE <<>>

StateChangeMsgMutSwapped(prev, next, entry) ==
    [type |-> "state_change", prev |-> next, next |-> prev, ts |-> entry.ts]
StateChangeMsg(prev, next, entry) ==
    [type |-> "state_change", prev |-> prev, next |-> next, ts |-> entry.ts]
TickMsg(st, entry) ==
    [type |-> "tick", prev |-> st, next |-> st, ts |-> entry.ts]

NoRet == [ts |-> 0, prev |-> "UNKNOWN", next |-> "UNKNOWN", changed |-> FALSE]

\* the socket of an observer in `clients`: whether it is in the set, whether
\* its readyState is 1 (a socket that left 1 never returns to it), whether its
\* send throws (a socket that threw once throws ever after), the type of the
\* first message it was sent, the messages the handler that ran last sent it,
\* and which handler that was
NoClient == [in |-> FALSE, ready |-> FALSE, broken |-> FALSE, first |-> "none",
             recv |-> <<>>, ev |-> "none"]

SnapshotMsg(st, h) == [type |-> "snapshot", state |-> st, history |-> h]

\* safeSend(ws, payload) for each message of `msgs` in turn, ws.send throwing at
\* the k-th (never for k = 0): what is sent before stays sent, and broadcast
\* deletes the socket from `clients`
broadcastMutTickFirst(c, msgs, k) ==
    IF ~c.in THEN c
    ELSE IF ~c.ready THEN [c EXCEPT !.recv = <<>>, !.ev = "cycle"]
    ELSE IF k > 0 THEN NoClient
    ELSE [c EXCEPT !.recv = [i \in 1..Len(msgs) |-> msgs[Len(msgs) + 1 - i]],
                   !.ev = "cycle",
                   !.first = IF c.first = "none" /\ Len(msgs) > 0
                             THEN msgs[Len(msgs)].type ELSE c.first]
broadcast(c, msgs, k) ==
    IF ~c.in THEN c
    ELSE IF ~c.ready THEN [c EXCEPT !.recv = <<>>, !.ev = "cycle"]
    ELSE IF k > 0 THEN NoClient
    ELSE [c EXCEPT !.recv = msgs, !.ev = "cycle",
                   !.first = IF c.first = "none" /\ Len(msgs) > 0
                             THEN msgs[1].type ELSE c.first]
\* the messages at which ws.send can throw
ThrowPoints(c, msgs) ==
    IF ~(c.in /\ c.ready) THEN {0}
    ELSE IF c.broken THEN {Min(1, Len(msgs))}
    ELSE 0..Len(msgs)

\* appendEvent(event) for the records of one onChange: TRUE when written, FALSE
\* when mkdir or appendFile rejects; the rejection of onChange's promise is
\* handled nowhere, which ends the process
AppendResults(records) == IF records = <<>> THEN {TRUE} ELSE {TRUE, FALSE}

InitServerIdle ==
    /\ state = "UNKNOWN" /\ fail = 0 /\ succ = 0
    /\ okAfterSucc = okAfterSuccDefault
    /\ history = <<>> /\ inflight = {} /\ started = 0
    /\ ret = NoRet /\ audit = <<>> /\ sent = <<>> /\ inserted = <<>>
    /\ proc = "running" /\ wsClient = NoClient

\* after server.mjs has been evaluated: the timer is armed and the startup
\* monitor.tick() has read its ts and waits for the device listing
InitServer(okAfterValues) ==
    /\ state = "UNKNOWN" /\ fail = 0 /\ succ = 0
    /\ okAfterSucc \in okAfterValues
    /\ history = <<>>
    /\ inflight = { [ts |-> 1, timer |-> FALSE] }
    /\ started = 1
    /\ ret = NoRet /\ audit = <<>> /\ sent = <<>> /\ inserted = <<>>
    /\ proc = "running" /\ wsClient = NoClient

\* the setInterval callback fires and calls monitor.tick(), which reads ts and
\* suspends at its first await; nothing waits for the ticks already running
TimerFire ==
    /\ proc = "running"
    /\ started < MaxTicks
    /\ Cardinality(inflight) < MaxInFlight
    /\ started' = started + 1
    /\ inflight' = inflight \cup { [ts |-> started + 1, timer |-> TRUE] }
    /\ sent' = <<>>
    /\ wsClient' = IF wsClient.in
                   THEN [wsClient EXCEPT !.recv = <<>>, !.ev = "fire"] ELSE wsClient
    /\ UNCHANGED <<state, fail, succ, okAfterSucc, history, ret, audit, inserted, proc>>
    /\ UNCHANGED <<wanVars, mainVars, obsVars, cliVars, fnVars>>

\* the rest of Monitor.tick after its last await, with setState / pushHistory and
\* onChange (the state_change broadcast, then the append to the event log, whose
\* failure nothing catches); then, for a tick of the timer, the callback's
\* broadcast of the tick message
TickBody(t, outcome, probe) ==
    LET d       == tickDecide(state, fail, succ, okAfterSucc, outcome.wanUp, probe.ok)
        entry   == Entry(t.ts, d.next, probe, outcome, d)
        prev    == state
        changed == d.via = "setState" /\ prev # d.next
        records == IF changed THEN onChangeAudit(prev, d.next, entry) ELSE <<>>
        msgs    == (IF changed THEN <<StateChangeMsg(prev, d.next, entry)>> ELSE <<>>)
                   \o (IF t.timer THEN <<TickMsg(d.next, entry)>> ELSE <<>>)
    IN  /\ proc = "running"
        /\ fail' = d.fail
        /\ succ' = d.succ
        /\ state' = d.next
        /\ history' = pushHistory(history, entry)
        /\ ret' = [ts |-> entry.ts, prev |-> prev, next |-> d.next, changed |-> changed]
        /\ \E wrote \in AppendResults(records) :
               /\ audit' = IF wrote THEN audit \o records ELSE audit
               /\ proc' = IF wrote THEN "running" ELSE "exited"
        /\ sent' = msgs
        /\ \E k \in ThrowPoints(wsClient, msgs) :
               wsClient' = broadcast(wsClient, msgs, k)
        /\ inserted' = Append(inserted, entry.ts)
        /\ inflight' = inflight \ {t}
        /\ UNCHANGED <<okAfterSucc, started>>
        /\ UNCHANGED <<wanVars, mainVars, obsVars, cliVars, fnVars>>

InitialTickDone ==
    \E t \in inflight, outcome \in CycleOutcomes, probe \in ProbeResults :
        /\ ~t.timer
        /\ TickBody(t, outcome, probe)

TimerTickDone ==
    \E t \in inflight, outcome \in CycleOutcomes, probe \in ProbeResults :
        /\ t.timer
        /\ TickBody(t, outcome, probe)

\* the cycles of the specification of the /ws route: the controller tells
\* nothing of the WAN link, the probe answers either way
QuietOutcome == [unifiError |-> FALSE, wanUp |-> "null"]

\* ---- the awaits of Monitor.tick, one step each ----
\* a tick suspended at an await: "devices" (getAllDevices), "probe"
\* (probeInternet), "groups" (listWanNetworkGroups), or "hung" when the
\* controller never answers the request it waits for, which nothing aborts
LiveTick(ts, byTimer, on, err, probe) ==
    [ts |-> ts, timer |-> byTimer, on |-> on, err |-> err, probe |-> probe]

NotYetProbed == [ok |-> FALSE, ms |-> None]

LvTimerFire ==
    /\ proc = "running"
    /\ started < MaxTicks
    /\ Cardinality(inflight) < MaxInFlight
    /\ started' = started + 1
    /\ inflight' = inflight \cup
                       { LiveTick(started + 1, TRUE, "devices", FALSE, NotYetProbed) }
    /\ sent' = <<>>
    /\ UNCHANGED <<state, fail, succ, okAfterSucc, history, ret, audit, inserted, proc,
                   wsClient>>
    /\ UNCHANGED <<wanVars, mainVars, obsVars, cliVars, fnVars>>

LvMove(t, u) ==
    /\ proc = "running"
    /\ inflight' = (inflight \ {t}) \cup {u}
    /\ UNCHANGED <<state, fail, succ, okAfterSucc, history, started, ret, audit, sent,
                   inserted, proc, wsClient>>
    /\ UNCHANGED <<wanVars, mainVars, obsVars, cliVars, fnVars>>

\* getAllDevices resolves or rejects
LvDevicesAnswer ==
    \E t \in inflight, err \in BOOLEAN :
        /\ t.on = "devices"
        /\ LvMove(t, [t EXCEPT !.on = "probe", !.err = err])

\* probeInternet resolves: each of its fetches ends or is aborted by its timeout
LvProbeDone ==
    \E t \in inflight, probe \in ProbeResults :
        /\ t.on = "probe"
        /\ LvMove(t, [t EXCEPT !.on = "groups", !.probe = probe])

\* UnifiApi.get: the fetch carries no signal and no timeout, so a request the
\* controller never answers stays pending
LvControllerHangs ==
    \E t \in inflight :
        /\ t.on \in {"devices", "groups"}
        /\ LvMove(t, [t EXCEPT !.on = "hung"])

\* listWanNetworkGroups resolves or rejects, and the tick runs to its end
LvGroupsAnswer ==
    \E t \in inflight :
        /\ t.on = "groups"
        /\ TickBody(t, [unifiError |-> t.err, wanUp |-> QuietOutcome.wanUp], t.probe)


WsInitialTickDone ==
    \E t \in inflight, probe \in ProbeResults :
        /\ ~t.timer
        /\ TickBody(t, QuietOutcome, probe)

WsTimerTickDone ==
    \E t \in inflight, probe \in ProbeResults :
        /\ t.timer
        /\ TickBody(t, QuietOutcome, probe)

SrvOnly == <<state, fail, succ, okAfterSucc, history, inflight, started, ret, audit,
             sent, inserted, proc>>

\* app.get("/ws"): clients.add(ws), then safeSend of the snapshot, which sends
\* only if the socket's readyState is 1 and whose result the handler drops
WsConnectMutNoSnapshot ==
    /\ proc = "running"
    /\ ~wsClient.in
    /\ \E ready \in BOOLEAN :
           wsClient' = [in |-> TRUE, ready |-> ready, broken |-> FALSE,
                        first |-> "none", recv |-> <<>>, ev |-> "connect"]
    /\ UNCHANGED SrvOnly
    /\ UNCHANGED <<wanVars, mainVars, obsVars, cliVars, fnVars>>
WsConnect ==
    /\ proc = "running"
    /\ ~wsClient.in
    /\ \E ready \in BOOLEAN, throws \in BOOLEAN :
           LET got == ready /\ ~throws
           IN  /\ throws => ready
               /\ wsClient' = [in |-> TRUE, ready |-> ready, broken |-> throws,
                               first |-> IF got THEN "snapshot" ELSE "none",
                               recv |-> IF got THEN <<SnapshotMsg(state, history)>>
                                        ELSE <<>>,
                               ev |-> "connect"]
    /\ UNCHANGED SrvOnly
    /\ UNCHANGED <<wanVars, mainVars, obsVars, cliVars, fnVars>>

\* the socket leaves readyState 1 (the peer is closing)
WsClosing ==
    /\ proc = "running"
    /\ wsClient.in /\ wsClient.ready
    /\ wsClient' = [wsClient EXCEPT !.ready = FALSE, !.recv = <<>>, !.ev = "closing"]
    /\ UNCHANGED SrvOnly
    /\ UNCHANGED <<wanVars, mainVars, obsVars, cliVars, fnVars>>

\* ws.on("close") / ws.on("error"): clients.delete(ws)
WsGone ==
    /\ proc = "running"
    /\ wsClient.in
    /\ wsClient' = NoClient
    /\ UNCHANGED SrvOnly
    /\ UNCHANGED <<wanVars, mainVars, obsVars, cliVars, fnVars>>


(***************************************************************************)
(* unifi-monitor.mjs: the standalone loop                                  *)
(***************************************************************************)
\* readWanUpFromUSG(usg)
readWanUpFromUSG(usg) ==
    IF usg = None THEN "null"
    ELSE LET u == usg[1].uplink
         IN  IF u.kind = "object" /\ IsBool(u.up) THEN u.up
             ELSE IF u.kind = "array"
             THEN LET f   == Find(u.items,
                                  {i \in DOMAIN u.items : IsWanUplink(u.items[i])})
                      wan == IF f # None THEN f
                             ELSE IF Len(u.items) > 0 THEN Some(u.items[1]) ELSE None
                  IN  IF wan # None /\ IsBool(wan[1].up) THEN wan[1].up ELSE "null"
             ELSE "null"

\* what one cycle of main gets from Promise.all: a rejection (a controller
\* request threw), or the device listing's wanUp
MainOutcomes ==
    { [err |-> TRUE, wanUp |-> "null"] } \cup
    { [err |-> FALSE, wanUp |-> readWanUpFromUSG(pickUSG(l))] : l \in DeviceLists }

\* HealthStateMachine.update({ wanUp, probeOk })
update(sm, wanUp, probeOk) ==
    IF wanUp = "false"
    THEN [state |-> "DOWN", failCount |-> 0, successCount |-> 0]
    ELSE IF ~probeOk
    THEN [state |-> IF sm.failCount + 1 >= PROBE_FAILS_FOR_DEGRADED
                    THEN "DEGRADED" ELSE sm.state,
          failCount |-> sm.failCount + 1, successCount |-> 0]
    ELSE LET st1 == IF sm.successCount + 1 >= PROBE_SUCCESSES_FOR_OK
                    THEN "OK" ELSE sm.state
         IN  [state |-> IF st1 = "UNKNOWN" THEN "OK" ELSE st1,
              failCount |-> 0, successCount |-> sm.successCount + 1]

InitMainIdle ==
    /\ smState = "UNKNOWN" /\ failCount = 0 /\ successCount = 0
    /\ lastNotifiedState = "null"
    /\ alerts = <<>> /\ mainTrace = <<>>

\* one pass of the for (;;) loop whose Promise.all resolved
MainCycleOk ==
    \E o \in MainOutcomes, probeOk \in BOOLEAN :
        /\ Len(mainTrace) < MaxCycles
        /\ ~o.err
        /\ LET sm == update([state |-> smState, failCount |-> failCount,
                             successCount |-> successCount], o.wanUp, probeOk)
           IN  /\ smState' = sm.state
               /\ failCount' = sm.failCount
               /\ successCount' = sm.successCount
               /\ IF sm.state # lastNotifiedState
                  THEN /\ lastNotifiedState' = sm.state
                       /\ alerts' = Append(alerts, [kind |-> "state", state |-> sm.state,
                                                    cycle |-> Len(mainTrace) + 1])
                  ELSE UNCHANGED <<lastNotifiedState, alerts>>
               /\ mainTrace' = Append(mainTrace,
                                  [err |-> FALSE, wanUp |-> o.wanUp, probeOk |-> probeOk,
                                   prev |-> smState, state |-> sm.state])
        /\ UNCHANGED <<srvVars, wanVars, obsVars, cliVars, fnVars>>

\* one pass whose Promise.all rejected: the catch block
MainCycleErrMutAlways ==
    /\ Len(mainTrace) < MaxCycles
    /\ smState' = "UNKNOWN"
    /\ lastNotifiedState' = "UNKNOWN"
    /\ alerts' = Append(alerts, [kind |-> "error", state |-> "UNKNOWN",
                                 cycle |-> Len(mainTrace) + 1])
    /\ mainTrace' = Append(mainTrace,
                       [err |-> TRUE, wanUp |-> "null", probeOk |-> FALSE,
                        prev |-> smState,
                        state |-> "UNKNOWN"])
    /\ UNCHANGED <<failCount, successCount>>
    /\ UNCHANGED <<srvVars, wanVars, obsVars, cliVars, fnVars>>
MainCycleErr ==
    /\ Len(mainTrace) < MaxCycles
    /\ IF smState # "UNKNOWN"
       THEN /\ smState' = "UNKNOWN"
            /\ lastNotifiedState' = "UNKNOWN"
            /\ alerts' = Append(alerts, [kind |-> "error", state |-> "UNKNOWN",
                                         cycle |-> Len(mainTrace) + 1])
       ELSE UNCHANGED <<smState, lastNotifiedState, alerts>>
    /\ mainTrace' = Append(mainTrace,
                       [err |-> TRUE, wanUp |-> "null", probeOk |-> FALSE,
                        prev |-> smState,
                        state |-> "UNKNOWN"])
    /\ UNCHANGED <<failCount, successCount>>
    /\ UNCHANGED <<srvVars, wanVars, obsVars, cliVars, fnVars>>


(***************************************************************************)
(* unifi-monitor.mjs: UniFiClient                                          *)
(***************************************************************************)
\* what the controller answers to a login: a success with a Set-Cookie, a
\* success without one, or a status that is not ok
LoginAnswers == {"cookie", "nocookie", "rejected"}
\* what it answers to the call itself: ok, 401/403, or another status
CallAnswers == {"ok", "unauthorized", "failed"}

Session(c, m, b) == [cookie |-> c, effectiveMode |-> m, baseUrlEffective |-> b]

\* loginUniFiOS(baseUrl) / loginLegacy(baseUrlLegacy) on the session `ses`: the
\* cookie is assigned before it is tested, the dialect and the address after
loginMutEager(ses, dialect, baseUrl, answer) ==
    IF answer = "rejected"
    THEN [ok |-> FALSE, msg |-> <<dialect, "login falhou">>, ses |-> ses]
    ELSE IF answer = "nocookie"
    THEN [ok |-> FALSE, msg |-> <<dialect, "sem cookie">>,
          ses |-> Session("", dialect, baseUrl)]
    ELSE [ok |-> TRUE, msg |-> <<>>, ses |-> Session("sid", dialect, baseUrl)]
login(ses, dialect, baseUrl, answer) ==
    IF answer = "rejected"
    THEN [ok |-> FALSE, msg |-> <<dialect, "login falhou">>, ses |-> ses]
    ELSE IF answer = "nocookie"
    THEN [ok |-> FALSE, msg |-> <<dialect, "sem cookie">>,
          ses |-> Session("", ses.effectiveMode, ses.baseUrlEffective)]
    ELSE [ok |-> TRUE, msg |-> <<>>, ses |-> Session("sid", dialect, baseUrl)]

\* the Error ensureLogin throws in auto mode when both logins failed
AutoError(e1, e2) == <<"Falhou login em auto", e1, e2>>

CurrentSession == Session(cookie, effectiveMode, baseUrlEffective)
\* the test at the top of ensureLogin()
LoggedIn == cookie # "" /\ effectiveMode # "null" /\ baseUrlEffective # "null"

\* statDevices / statHealth choose the path from effectiveMode before request()
PathFor(m) == IF m = "unifios" THEN "proxy" ELSE "plain"

NoCall == [pc |-> "idle", path |-> "none", sends |-> 0, relogins |-> 0,
           tried |-> <<>>, before |-> Session("", "null", "null")]
NoLogin == [ran |-> FALSE, mode |-> "none", tried |-> <<>>, ok |-> FALSE, err |-> <<>>,
            before |-> Session("", "null", "null"),
            after |-> Session("", "null", "null")]
NoResult == [status |-> "none", err |-> <<>>, sends |-> 0, relogins |-> 0]

InitClientIdle ==
    /\ cmode = "auto" /\ cookie = "" /\ effectiveMode = "null"
    /\ baseUrlEffective = "null"
    /\ call = NoCall /\ lastLogin = NoLogin /\ lastCall = NoResult

\* new UniFiClient({ baseUrl, mode })
InitClient ==
    /\ cmode \in {"auto", "unifios", "legacy"}
    /\ cookie = "" /\ effectiveMode = "null" /\ baseUrlEffective = "null"
    /\ call = NoCall /\ lastLogin = NoLogin /\ lastCall = NoResult

NotClient == <<srvVars, wanVars, mainVars, obsVars, fnVars>>

\* request() rejects with `err`
Throw(err) ==
    /\ lastCall' = [status |-> "error", err |-> err, sends |-> call.sends,
                    relogins |-> call.relogins]
    /\ call' = NoCall

\* one attempt of ensureLogin() has been answered
Tried(dialect, baseUrl, r) ==
    Append(call.tried, [dialect |-> dialect, baseUrl |-> baseUrl, ok |-> r.ok,
                        msg |-> r.msg])

\* the ensureLogin() of the call is over, with `err` (<<>> when it returned)
LoginOver(tried, r, err) ==
    lastLogin' = [ran |-> TRUE, mode |-> cmode, tried |-> tried, ok |-> r.ok,
                  err |-> err, before |-> call.before, after |-> r.ses]

\* statDevices() / statHealth(): the path is chosen, request() is entered
Request ==
    /\ call.pc = "idle"
    /\ call' = [NoCall EXCEPT !.pc = "ensure", !.path = PathFor(effectiveMode),
                              !.before = CurrentSession]
    /\ UNCHANGED <<cmode, cookie, effectiveMode, baseUrlEffective, lastLogin, lastCall>>
    /\ UNCHANGED NotClient

\* ensureLogin() returns at its first line
EnsureLoginCached ==
    /\ call.pc = "ensure"
    /\ LoggedIn
    /\ call' = [call EXCEPT !.pc = "fetch"]
    /\ UNCHANGED <<cmode, cookie, effectiveMode, baseUrlEffective, lastLogin, lastCall>>
    /\ UNCHANGED NotClient

\* ensureLogin() in mode unifios, or first in mode auto: loginUniFiOS(base)
LoginUniFiOS ==
    \E answer \in LoginAnswers :
        /\ call.pc = "ensure"
        /\ ~LoggedIn
        /\ cmode # "legacy"
        /\ LET r     == login(CurrentSession, "unifios", "base", answer)
               tried == Tried("unifios", "base", r)
           IN  /\ cookie' = r.ses.cookie
               /\ effectiveMode' = r.ses.effectiveMode
               /\ baseUrlEffective' = r.ses.baseUrlEffective
               /\ IF r.ok
                  THEN /\ call' = [call EXCEPT !.pc = "fetch", !.tried = <<>>]
                       /\ LoginOver(tried, r, <<>>)
                       /\ UNCHANGED lastCall
                  ELSE IF cmode = "unifios"
                  THEN /\ Throw(r.msg)
                       /\ LoginOver(tried, r, r.msg)
                  ELSE /\ call' = [call EXCEPT !.pc = "legacy", !.tried = tried]
                       /\ UNCHANGED <<lastLogin, lastCall>>
        /\ UNCHANGED cmode
        /\ UNCHANGED NotClient

\* ensureLogin() in mode legacy, or in mode auto after loginUniFiOS threw:
\* loginLegacy(base8443)
LoginLegacy ==
    \E answer \in LoginAnswers :
        /\ \/ call.pc = "ensure" /\ ~LoggedIn /\ cmode = "legacy"
           \/ call.pc = "legacy"
        /\ LET r     == login(CurrentSession, "legacy", "base8443", answer)
               tried == Tried("legacy", "base8443", r)
               err   == IF r.ok THEN <<>>
                        ELSE IF cmode = "legacy" THEN r.msg
                        ELSE AutoError(call.tried[1].msg, r.msg)
           IN  /\ cookie' = r.ses.cookie
               /\ effectiveMode' = r.ses.effectiveMode
               /\ baseUrlEffective' = r.ses.baseUrlEffective
               /\ LoginOver(tried, r, err)
               /\ IF r.ok
                  THEN /\ call' = [call EXCEPT !.pc = "fetch", !.tried = <<>>]
                       /\ UNCHANGED lastCall
                  ELSE Throw(err)
        /\ UNCHANGED cmode
        /\ UNCHANGED NotClient

\* the fetch of request() is answered; on 401/403 the cookie is cleared and
\* ensureLogin() and then request() are called again
Fetch ==
    \E answer \in CallAnswers :
        /\ call.pc = "fetch"
        /\ answer = "unauthorized" => call.sends + 1 < MaxSends
        /\ IF answer = "unauthorized"
           THEN /\ cookie' = ""
                /\ call' = [call EXCEPT !.pc = "ensure", !.sends = @ + 1,
                                        !.relogins = @ + 1,
                                        !.before = [CurrentSession EXCEPT !.cookie = ""]]
                /\ UNCHANGED lastCall
           ELSE /\ lastCall' = [status |-> IF answer = "ok" THEN "ok" ELSE "error",
                                err |-> IF answer = "ok" THEN <<>> ELSE <<"HTTP", call.path>>,
                                sends |-> call.sends + 1, relogins |-> call.relogins]
                /\ call' = NoCall
                /\ UNCHANGED cookie
        /\ UNCHANGED <<cmode, effectiveMode, baseUrlEffective, lastLogin>>
        /\ UNCHANGED NotClient


(***************************************************************************)
(* unifi-monitor.mjs, main: statDevices and statHealth are called in one   *)
(* Promise.all on the one client.  Each runs request() and with it         *)
(* ensureLogin() up to its first await before any answer can arrive.       *)
(***************************************************************************)
Reqs == {"devices", "health"}

NoPar == [round |-> 0,
          req |-> [r \in Reqs |-> [pc |-> "idle", sends |-> 0]],
          logins |-> 0, written |-> 0, relogins |-> 0]

\* ensureLogin() up to its first await: it returns when the session is there,
\* else the login of the mode is sent (UniFi OS first in mode auto)
EnsureStart(loggedIn) ==
    IF loggedIn THEN "fetch" ELSE IF cmode = "legacy" THEN "legacy" ELSE "os"

\* the logins that are waiting for their answer
LoginsInFlight == {r \in Reqs : par.req[r].pc \in {"os", "legacy"}}

\* a pass of the loop: Promise.all([client.statDevices(), client.statHealth(), ...])
ParStart ==
    /\ par.round < MaxRounds
    /\ \A r \in Reqs : par.req[r].pc \in {"idle", "done", "failed"}
    /\ par' = [round |-> par.round + 1,
               req |-> [r \in Reqs |-> [pc |-> EnsureStart(LoggedIn), sends |-> 0]],
               logins |-> IF LoggedIn THEN 0 ELSE Cardinality(Reqs),
               written |-> 0, relogins |-> 0]
    /\ UNCHANGED <<cliVars, clients, bcLast, prIn, prOut, pg>>
    /\ UNCHANGED <<srvVars, wanVars, mainVars, obsVars>>

\* the login of one of the requests is answered
ParLoginAnswer ==
    \E r \in LoginsInFlight, answer \in LoginAnswers :
        LET os  == par.req[r].pc = "os"
            res == login(CurrentSession, IF os THEN "unifios" ELSE "legacy",
                         IF os THEN "base" ELSE "base8443", answer)
        IN  /\ cookie' = res.ses.cookie
            /\ effectiveMode' = res.ses.effectiveMode
            /\ baseUrlEffective' = res.ses.baseUrlEffective
            /\ par' = IF res.ok
                      THEN [par EXCEPT !.req[r].pc = "fetch", !.written = @ + 1]
                      ELSE IF os /\ cmode = "auto"
                      THEN [par EXCEPT !.req[r].pc = "legacy", !.logins = @ + 1]
                      ELSE [par EXCEPT !.req[r].pc = "failed"]
            /\ UNCHANGED <<cmode, call, lastLogin, lastCall>>
            /\ UNCHANGED <<clients, bcLast, prIn, prOut, pg>>
            /\ UNCHANGED <<srvVars, wanVars, mainVars, obsVars>>

\* the fetch of one of the requests is answered; on 401/403 the cookie is
\* cleared and ensureLogin() runs again
ParFetchAnswer ==
    \E r \in Reqs, answer \in CallAnswers :
        /\ par.req[r].pc = "fetch"
        /\ answer = "unauthorized" => par.req[r].sends + 1 < MaxSends
        /\ IF answer = "unauthorized"
           THEN /\ cookie' = ""
                /\ par' = [par EXCEPT !.req[r].pc = EnsureStart(FALSE),
                                      !.req[r].sends = @ + 1,
                                      !.logins = @ + 1, !.relogins = @ + 1]
           ELSE /\ par' = [par EXCEPT !.req[r].pc = IF answer = "ok" THEN "done" ELSE "failed",
                                      !.req[r].sends = @ + 1]
                /\ UNCHANGED cookie
        /\ UNCHANGED <<cmode, effectiveMode, baseUrlEffective, call, lastLogin, lastCall>>
        /\ UNCHANGED <<clients, bcLast, prIn, prOut, pg>>
        /\ UNCHANGED <<srvVars, wanVars, mainVars, obsVars>>


(***************************************************************************)
(* The observer: the dashboard page's WebSocket client                     *)
(***************************************************************************)
\* entries the server may send: [ts, state, ms], ms being probe.ms
ObsEntry(ts, st, ms) == [ts |-> ts, state |-> st, ms |-> ms]
ObsEntries ==
    { ObsEntry(1, "OK", Some(5)), ObsEntry(1, "OK", None), ObsEntry(1, "DOWN", None),
      ObsEntry(2, "OK", Some(5)), ObsEntry(3, "DOWN", None) }

\* the length a history sent by the server can have: its capacity is its own
\* setting (MAX_HISTORY, 300 by default), above the observer's cap (250)
ServerHistoryMax == ObsCap + 1

\* the histories a snapshot or a status answer carries: newest first, at most
\* the server's capacity
RECURSIVE SeqsUpTo(_, _)
SeqsUpTo(S, n) ==
    IF n = 0 THEN { <<>> }
    ELSE LET shorter == SeqsUpTo(S, n - 1)
         IN  shorter \cup { <<e>> \o h : e \in S, h \in shorter }
Descending(h) == \A i \in 1..(Len(h) - 1) : h[i].ts > h[i + 1].ts
ServerHistories == { h \in SeqsUpTo(ObsEntries, ServerHistoryMax) : Descending(h) }
StatusPayloads ==
    { [state |-> IF Len(h) = 0 THEN "UNKNOWN" ELSE h[1].state, history |-> h] :
          h \in ServerHistories }

NoData == [state |-> "UNKNOWN", history |-> <<>>]

\* the dedup key `${ts}|${state}|${probe?.ms ?? "x"}`
Key(e) == <<e.ts, e.state, IF e.ms = None THEN <<"x", 0>> ELSE <<"n", e.ms[1]>> >>
\* the same without the ?? "x" on the side of the stored entries
KeyNoSentinel(e) ==
    <<e.ts, e.state, IF e.ms = None THEN <<"null", 0>> ELSE <<"n", e.ms[1]>> >>

\* prevHist.some((h) => key(h) === key)
HasMutNoSentinel(prevHist, entry) ==
    \E i \in 1..Len(prevHist) : KeyNoSentinel(prevHist[i]) = Key(entry)
Has(prevHist, entry) ==
    \E i \in 1..Len(prevHist) : Key(prevHist[i]) = Key(entry)

\* nextHist of the tick branch of ws.onmessage
tickMerge(prevHist, entry) ==
    IF Has(prevHist, entry) THEN prevHist
    ELSE SubSeq(<<entry>> \o prevHist, 1, Min(ObsCap, Len(prevHist) + 1))

\* scheduleReconnect(): the new attempt counter and the delay
Attempt(retry) == Min(RetryCap, retry + 1)
DelayMutNoCap(attempt) == BaseDelay * Pow2(attempt)
Delay(attempt) == Min(MaxDelay, BaseDelay * Pow2(attempt))

\* lastTickAtRef after a history arrived: Date.parse(history[0].ts), if any
TickAtOf(h, old) == IF Len(h) > 0 THEN h[1].ts ELSE old

\* the page before its effect has run (the other specifications leave it there)
InitObsIdle ==
    /\ obsData = NoData /\ wsStatus = "offline" /\ wsRetry = 0
    /\ sock = "none" /\ timer = <<>> /\ alive = TRUE /\ loads = 0
    /\ lastTickAt = 0 /\ lastEv = "none" /\ lastDelay = [prev |-> 0, cur |-> 0]
    /\ openedAt = -1

\* after the effect has run: load() waits for its answer and connectWs() has
\* created the socket
InitObs ==
    /\ obsData = NoData /\ wsStatus = "reconnecting" /\ wsRetry = 0
    /\ sock = "connecting" /\ timer = <<>> /\ alive = TRUE /\ loads = 1
    /\ lastTickAt = 0 /\ lastEv = "mount" /\ lastDelay = [prev |-> 0, cur |-> 0]
    /\ openedAt = -1

NotObs == <<srvVars, wanVars, mainVars, cliVars, fnVars>>

\* scheduleReconnect(), `pending` being the timeouts still waiting
scheduleReconnect(pending) ==
    /\ wsRetry' = Attempt(wsRetry)
    /\ timer' = Append(pending, Delay(Attempt(wsRetry)))
    /\ lastDelay' = [prev |-> lastDelay.cur, cur |-> Delay(Attempt(wsRetry))]

\* the effect's cleanup
Unmount ==
    /\ alive
    /\ alive' = FALSE
    /\ lastEv' = "unmount"
    /\ UNCHANGED <<obsData, wsStatus, wsRetry, sock, timer, loads, lastTickAt, lastDelay>>
    /\ UNCHANGED <<NotObs, openedAt>>

\* ws.onopen
WsOpenMutNoReset ==
    /\ sock = "connecting"
    /\ sock' = "open"
    /\ wsStatus' = "online"
    /\ lastDelay' = [prev |-> 0, cur |-> 0]
    /\ openedAt' = wsRetry
    /\ lastEv' = "open"
    /\ UNCHANGED <<obsData, wsRetry, timer, alive, loads, lastTickAt>>
    /\ UNCHANGED NotObs
WsOpen ==
    /\ sock = "connecting"
    /\ sock' = "open"
    /\ wsRetry' = 0
    /\ wsStatus' = "online"
    /\ lastDelay' = [prev |-> 0, cur |-> 0]
    /\ openedAt' = wsRetry
    /\ lastEv' = "open"
    /\ UNCHANGED <<obsData, timer, alive, loads, lastTickAt>>
    /\ UNCHANGED NotObs

\* ws.onerror
WsError ==
    /\ sock \in {"connecting", "open"}
    /\ wsStatus' = IF alive THEN "reconnecting" ELSE wsStatus
    /\ lastEv' = "error"
    /\ UNCHANGED <<obsData, wsRetry, sock, timer, alive, loads, lastTickAt, lastDelay>>
    /\ UNCHANGED <<NotObs, openedAt>>

\* ws.onclose
WsCloseMutNoRetry ==
    /\ sock \in {"connecting", "open"}
    /\ sock' = "none"
    /\ wsStatus' = IF alive THEN "reconnecting" ELSE wsStatus
    /\ lastEv' = "close"
    /\ UNCHANGED <<obsData, wsRetry, timer, lastDelay, alive, loads, lastTickAt>>
    /\ UNCHANGED <<NotObs, openedAt>>
WsClose ==
    /\ sock \in {"connecting", "open"}
    /\ sock' = "none"
    /\ IF alive
       THEN /\ wsStatus' = "reconnecting"
            /\ scheduleReconnect(timer)
       ELSE UNCHANGED <<wsStatus, wsRetry, timer, lastDelay>>
    /\ lastEv' = "close"
    /\ UNCHANGED <<obsData, alive, loads, lastTickAt>>
    /\ UNCHANGED <<NotObs, openedAt>>

\* the mark a timeout leaves in the trace: two marks in turn, so that an
\* attempt that changes nothing else is still a step
TimerEv(ev) == IF ev = "timer" THEN "timer_again" ELSE "timer"

\* the timeout set by scheduleReconnect expires and calls connectWs(), whose
\* new WebSocket(url) creates the socket
ReconnectTimer ==
    /\ Len(timer) > 0
    /\ timer' = Tail(timer)
    /\ IF alive
       THEN /\ wsStatus' = IF wsStatus = "online" THEN "online" ELSE "reconnecting"
            /\ sock' = "connecting"
       ELSE UNCHANGED <<wsStatus, sock>>
    /\ lastEv' = TimerEv(lastEv)
    /\ UNCHANGED <<obsData, wsRetry, alive, loads, lastTickAt, lastDelay>>
    /\ UNCHANGED <<NotObs, openedAt>>

\* the same when new WebSocket(url) throws: the catch calls scheduleReconnect()
ReconnectTimerThrows ==
    /\ Len(timer) > 0
    /\ alive
    /\ wsStatus' = IF wsStatus = "online" THEN "online" ELSE "reconnecting"
    /\ scheduleReconnect(Tail(timer))
    /\ lastEv' = TimerEv(lastEv)
    /\ UNCHANGED <<obsData, sock, alive, loads, lastTickAt>>
    /\ UNCHANGED <<NotObs, openedAt>>

\* ws.onmessage, snapshot branch
OnSnapshot ==
    \E snap \in StatusPayloads :
        /\ sock = "open"
        /\ obsData' = [state |-> snap.state, history |-> snap.history]
        /\ lastTickAt' = TickAtOf(snap.history, lastTickAt)
        /\ lastEv' = "snapshot"
        /\ UNCHANGED <<wsStatus, wsRetry, sock, timer, alive, loads, lastDelay>>
        /\ UNCHANGED <<NotObs, openedAt>>

\* ws.onmessage, tick branch; the message's state is the entry's
OnTick ==
    \E entry \in ObsEntries :
        /\ sock = "open"
        /\ lastTickAt' = entry.ts
        /\ obsData' = [state |-> entry.state,
                       history |-> tickMerge(obsData.history, entry)]
        /\ lastEv' = IF Has(obsData.history, entry) THEN "tick_dup" ELSE "tick_new"
        /\ UNCHANGED <<wsStatus, wsRetry, sock, timer, alive, loads, lastDelay>>
        /\ UNCHANGED <<NotObs, openedAt>>

\* ws.onmessage, state_change branch: load() starts its fetch
OnStateChange ==
    /\ sock = "open"
    /\ loads < MaxLoads
    /\ loads' = loads + 1
    /\ lastEv' = "state_change"
    /\ UNCHANGED <<obsData, wsStatus, wsRetry, sock, timer, alive, lastTickAt, lastDelay>>
    /\ UNCHANGED <<NotObs, openedAt>>

\* the fetch of a load() answers: setData(json)
LoadDone ==
    \E json \in StatusPayloads :
        /\ loads > 0
        /\ loads' = loads - 1
        /\ obsData' = json
        /\ lastTickAt' = TickAtOf(json.history, lastTickAt)
        /\ lastEv' = "load"
        /\ UNCHANGED <<wsStatus, wsRetry, sock, timer, alive, lastDelay>>
        /\ UNCHANGED <<NotObs, openedAt>>

\* the fetch of a load() fails: setError
LoadFail ==
    /\ loads > 0
    /\ loads' = loads - 1
    /\ lastEv' = "load_failed"
    /\ UNCHANGED <<obsData, wsStatus, wsRetry, sock, timer, alive, lastTickAt, lastDelay>>
    /\ UNCHANGED <<NotObs, openedAt>>

(***************************************************************************)
(* src/probe.mjs probeInternet and unifi-monitor.mjs httpProbe             *)
(***************************************************************************)
NotFn == <<srvVars, wanVars, mainVars, obsVars, cliVars>>

\* what a target does with the fetch: a response with ok, a response with
\* another status, a rejection, or nothing until the abort of the timeout
TargetAnswers == {"ok", "status", "rejects", "timeout"}
DefaultUrl == "one.one.one.one"
Target(url, answer) == [url |-> url, answer |-> answer]

\* the lists PROBE_URLS can give, target i having the url i, and the answer of
\* the default target
TargetLists ==
    UNION { [1..n -> TargetAnswers] : n \in 0..MaxTargets }
ProbeInputs ==
    { [answers |-> l, dflt |-> d] : l \in TargetLists, d \in TargetAnswers }

NoTargets == [answers |-> <<>>, dflt |-> "timeout"]
NoProbe == [by |-> "none", ok |-> FALSE, url |-> <<>>, ms |-> None, fetched |-> <<>>]

\* the urls probeInternet goes through: CONFIG.probeUrls, or the default
\* target when that list is empty
UrlsOfInternet(in) ==
    IF Len(in.answers) > 0
    THEN [i \in 1..Len(in.answers) |-> Target(<<i>>, in.answers[i])]
    ELSE << Target(<<DefaultUrl>>, in.dflt) >>
\* the urls httpProbe is given: ENV.PROBE_URLS as it is
UrlsOfHttp(in) == [i \in 1..Len(in.answers) |-> Target(<<i>>, in.answers[i])]

\* the for loop of the probe from the i-th url on, `fetched` being the urls
\* fetched before: only a response with ok returns; a rejection and an abort
\* are caught, another status falls through
RECURSIVE probeLoopMutNoReturn(_, _, _, _)
probeLoopMutNoReturn(by, urls, i, fetched) ==
    IF i > Len(urls)
    THEN LET hits == {j \in 1..Len(urls) : urls[j].answer = "ok"}
         IN  IF hits # {}
             THEN LET j == CHOOSE k \in hits : \A m \in hits : k <= m
                  IN  [by |-> by, ok |-> TRUE, url |-> urls[j].url,
                       ms |-> IF by = "probeInternet" THEN Some(5) ELSE None,
                       fetched |-> fetched]
             ELSE [by |-> by, ok |-> FALSE,
                   url |-> IF Len(urls) > 0 THEN urls[1].url ELSE <<>>,
                   ms |-> None, fetched |-> fetched]
    ELSE probeLoopMutNoReturn(by, urls, i + 1, Append(fetched, urls[i].url))
RECURSIVE probeLoop(_, _, _, _)
probeLoop(by, urls, i, fetched) ==
    IF i > Len(urls)
    THEN [by |-> by, ok |-> FALSE,
          url |-> IF Len(urls) > 0 THEN urls[1].url ELSE <<>>,
          ms |-> None, fetched |-> fetched]
    ELSE IF urls[i].answer = "ok"
    THEN [by |-> by, ok |-> TRUE, url |-> urls[i].url,
          ms |-> IF by = "probeInternet" THEN Some(5) ELSE None,
          fetched |-> Append(fetched, urls[i].url)]
    ELSE probeLoop(by, urls, i + 1, Append(fetched, urls[i].url))

NotProbe == <<clients, bcLast, pg, par, NotFn>>

\* probeInternet()
ProbeInternet ==
    /\ prOut.by = "none"
    /\ prOut' = probeLoop("probeInternet", UrlsOfInternet(prIn), 1, <<>>)
    /\ UNCHANGED <<prIn, NotProbe>>

\* httpProbe(urls, timeoutMs)
HttpProbe ==
    /\ prOut.by = "none"
    /\ prOut' = probeLoop("httpProbe", UrlsOfHttp(prIn), 1, <<>>)
    /\ UNCHANGED <<prIn, NotProbe>>

(***************************************************************************)
(* src/unifi.mjs: getAllDevices pages through listDevices                   *)
(***************************************************************************)
\* the devices of a site, as the controller lists them: distinct devices in
\* a fixed order
RECURSIVE Ascending(_)
Ascending(S) ==
    IF S = {} THEN <<>>
    ELSE LET m == CHOOSE x \in S : \A y \in S : x <= y
         IN  <<m>> \o Ascending(S \ {m})
Collections == { Ascending(S) : S \in SUBSET (1..MaxDevices) }

\* what the controller does with one listDevices request: a body whose data
\* is the page asked for, a body without a data array, or a failure
PageAnswers == {"page", "nodata", "rejects"}

\* listDevices(siteId, { limit, offset }) answered from the collection `col`:
\* the devices at offset+1 .. offset+limit, as far as there are any
listDevices(col, lim, offset) ==
    SubSeq(col, Min(offset, Len(col)) + 1, Min(offset + lim, Len(col)))

NoPaging == [pc |-> "idle", col |-> <<>>, offset |-> 0, out |-> <<>>,
             pages |-> <<>>, consistent |-> TRUE]

\* the body of the loop once the page is there, with a loop that stops after
\* every page that is not longer than the limit
getAllDevicesPageMutStopsOnFull(p, data) ==
    [p EXCEPT !.out = @ \o data,
              !.pages = Append(@, [offset |-> p.offset, data |-> data]),
              !.pc = IF Len(data) <= limit THEN "returned" ELSE "loop",
              !.offset = IF Len(data) <= limit THEN @ ELSE @ + limit]

\* the body of the loop once the page is there: out.push(...data);
\* if (data.length < limit) break; offset += limit
getAllDevicesPage(p, data) ==
    [p EXCEPT !.out = @ \o data,
              !.pages = Append(@, [offset |-> p.offset, data |-> data]),
              !.pc = IF Len(data) < limit THEN "returned" ELSE "loop",
              !.offset = IF Len(data) < limit THEN @ ELSE @ + limit]

\* getAllDevices(siteId) is called: out = [], offset = 0, the first request
GetAllDevices ==
    /\ pg.pc = "idle"
    /\ pg' = [pg EXCEPT !.pc = "loop"]
    /\ UNCHANGED <<clients, bcLast, prIn, prOut, par, NotFn>>

\* the request of the loop is answered
PageAnswer ==
    \E answer \in PageAnswers :
        /\ pg.pc = "loop"
        /\ pg' = IF answer = "rejects"
                 THEN [pg EXCEPT !.pc = "rejected", !.consistent = FALSE]
                 ELSE IF answer = "nodata"
                 THEN [getAllDevicesPage(pg, <<>>) EXCEPT !.consistent = FALSE]
                 ELSE getAllDevicesPage(pg, listDevices(pg.col, limit, pg.offset))
        /\ UNCHANGED <<clients, bcLast, prIn, prOut, par, NotFn>>

\* a device leaves the site while the loop is waiting for a page
DeviceRemoved ==
    \E i \in 1..Len(pg.col) :
        /\ pg.pc = "loop"
        /\ pg' = [pg EXCEPT !.col = SubSeq(pg.col, 1, i - 1) \o SubSeq(pg.col, i + 1, Len(pg.col)),
                            !.consistent = FALSE]
        /\ UNCHANGED <<clients, bcLast, prIn, prOut, par, NotFn>>

(***************************************************************************)
(* src/server.mjs: safeSend and broadcast over the set of sockets          *)
(***************************************************************************)
\* a socket: open (readyState 1, send works), dead (readyState 1, send throws)
\* or closing (readyState other than 1)
SocketKinds == {"open", "dead", "closing"}
Socket(id, kind) == [id |-> id, kind |-> kind]

\* safeSend(ws, payload): whether ws.send was called, and the value returned
safeSendMutAlwaysTrue(ws) == [called |-> ws.kind # "closing", ok |-> TRUE]
safeSend(ws) == [called |-> ws.kind # "closing", ok |-> ws.kind # "dead"]

\* broadcast(obj) from the i-th socket of the iteration on: the sockets left in
\* the set and the ws.send calls made, in order.  Deleting the socket being
\* visited does not disturb the iteration of a Set
RECURSIVE broadcastFrom(_, _)
broadcastFrom(cl, i) ==
    IF i > Len(cl) THEN [clients |-> <<>>, sends |-> <<>>]
    ELSE LET r    == safeSend(cl[i])
             rest == broadcastFrom(cl, i + 1)
         IN  [clients |-> (IF r.ok THEN <<cl[i]>> ELSE <<>>) \o rest.clients,
              sends   |-> (IF r.called THEN <<[id |-> cl[i].id, ok |-> r.ok]>>
                           ELSE <<>>) \o rest.sends]

NoBroadcast == [n |-> 0, before |-> <<>>, after |-> <<>>, sends |-> <<>>]
InitFnIdle ==
    /\ clients = <<>> /\ bcLast = NoBroadcast
    /\ prIn = NoTargets /\ prOut = NoProbe
    /\ pg = NoPaging /\ par = NoPar

IdsOf(cl) == {cl[i].id : i \in 1..Len(cl)}

\* app.get("/ws"): clients.add(ws)
BcConnect ==
    /\ Len(clients) < MaxObservers
    /\ \E id \in (1..MaxObservers) \ IdsOf(clients), kind \in SocketKinds :
           clients' = Append(clients, Socket(id, kind))
    /\ UNCHANGED <<bcLast, prIn, prOut, pg, par, NotFn>>

\* a socket of the set breaks or starts closing
BcSocketFails ==
    /\ \E i \in 1..Len(clients), kind \in {"dead", "closing"} :
           /\ clients[i].kind = "open"
           /\ clients' = [clients EXCEPT ![i].kind = kind]
    /\ UNCHANGED <<bcLast, prIn, prOut, pg, par, NotFn>>

\* ws.on("close") / ws.on("error"): clients.delete(ws)
BcClose ==
    /\ \E i \in 1..Len(clients) :
           clients' = SubSeq(clients, 1, i - 1) \o SubSeq(clients, i + 1, Len(clients))
    /\ UNCHANGED <<bcLast, prIn, prOut, pg, par, NotFn>>

\* broadcast(obj)
BcBroadcast ==
    /\ bcLast.n < MaxBroadcasts
    /\ LET r == broadcastFrom(clients, 1)
       IN  /\ clients' = r.clients
           /\ bcLast' = [n |-> bcLast.n + 1, before |-> clients, after |-> r.clients,
                         sends |-> r.sends]
    /\ UNCHANGED <<prIn, prOut, pg, par, NotFn>>


(***************************************************************************)
(* The specifications                                                      *)
(***************************************************************************)
Init == /\ InitServer({okAfterSuccDefault})
        /\ InitWanIdle /\ InitMainIdle /\ InitObsIdle /\ InitClientIdle /\ InitFnIdle
Next == TimerFire \/ InitialTickDone \/ TimerTickDone
Spec == Init /\ [][Next]_vars

\* the server with any OK_AFTER_SUCCESSES of a small set
OkAfterValues == {1, 2, 3}
InitAnyOk == /\ InitServer(OkAfterValues)
             /\ InitWanIdle /\ InitMainIdle /\ InitObsIdle /\ InitClientIdle /\ InitFnIdle
SpecAnyOk == InitAnyOk /\ [][Next]_vars

\* the server with an observer connecting and leaving
InitWs == Init
NextWs == \/ TimerFire \/ WsInitialTickDone \/ WsTimerTickDone
          \/ WsConnect \/ WsClosing \/ WsGone
SpecWs == InitWs /\ [][NextWs]_vars

\* the server with the awaits of a tick as steps; what the code bounds by a
\* timeout or what the controller does when it answers is fair
InitL ==
    /\ state = "UNKNOWN" /\ fail = 0 /\ succ = 0
    /\ okAfterSucc = okAfterSuccDefault
    /\ history = <<>>
    /\ inflight = { LiveTick(1, FALSE, "devices", FALSE, NotYetProbed) }
    /\ started = 1
    /\ ret = NoRet /\ audit = <<>> /\ sent = <<>> /\ inserted = <<>>
    /\ proc = "running" /\ wsClient = NoClient
    /\ InitWanIdle /\ InitMainIdle /\ InitObsIdle /\ InitClientIdle /\ InitFnIdle
NextL == \/ LvTimerFire \/ LvDevicesAnswer \/ LvProbeDone \/ LvControllerHangs
         \/ LvGroupsAnswer
SpecLive == /\ InitL /\ [][NextL]_vars
            /\ WF_vars(LvTimerFire) /\ WF_vars(LvDevicesAnswer)
            /\ WF_vars(LvProbeDone) /\ WF_vars(LvGroupsAnswer)

InitW ==
    /\ rcIn \in { [dev |-> d, grp |-> g] : d \in DevicesResults, g \in GroupsResults }
    /\ rcOut = NoVerdict
    /\ InitServerIdle /\ InitMainIdle /\ InitObsIdle /\ InitClientIdle /\ InitFnIdle
NextW == Reconcile
SpecWan == InitW /\ [][NextW]_vars

InitM == /\ InitMainIdle /\ InitServerIdle /\ InitWanIdle /\ InitObsIdle /\ InitClientIdle
         /\ InitFnIdle
NextM == MainCycleOk \/ MainCycleErr
SpecMain == InitM /\ [][NextM]_vars

InitO == /\ InitObs /\ InitServerIdle /\ InitWanIdle /\ InitMainIdle /\ InitClientIdle
         /\ InitFnIdle
NextO == \/ Unmount \/ WsOpen \/ WsError \/ WsClose
         \/ ReconnectTimer \/ ReconnectTimerThrows
         \/ OnSnapshot \/ OnTick \/ OnStateChange \/ LoadDone \/ LoadFail
SpecObs == InitO /\ [][NextO]_vars

\* the observer's connection alone; a timeout that was set expires, and a
\* socket being connected ends up open or closed
NextOC == \/ Unmount \/ WsOpen \/ WsError \/ WsClose
          \/ ReconnectTimer \/ ReconnectTimerThrows
SpecObsConn == /\ InitO /\ [][NextOC]_vars
               /\ WF_vars(ReconnectTimer \/ ReconnectTimerThrows)

InitC == /\ InitClient /\ InitServerIdle /\ InitWanIdle /\ InitMainIdle /\ InitObsIdle
         /\ InitFnIdle
NextC == \/ Request \/ EnsureLoginCached \/ LoginUniFiOS \/ LoginLegacy \/ Fetch
SpecClient == InitC /\ [][NextC]_vars

\* broadcasts over a set of sockets that connect, break and close
InitB == /\ InitFnIdle /\ InitServerIdle /\ InitWanIdle /\ InitMainIdle /\ InitObsIdle
         /\ InitClientIdle
NextB == BcConnect \/ BcSocketFails \/ BcClose \/ BcBroadcast
SpecBcast == InitB /\ [][NextB]_vars

\* the two probes applied to every list of targets
InitP == /\ prIn \in ProbeInputs /\ prOut = NoProbe
         /\ clients = <<>> /\ bcLast = NoBroadcast /\ pg = NoPaging /\ par = NoPar
         /\ InitServerIdle /\ InitWanIdle /\ InitMainIdle /\ InitObsIdle /\ InitClientIdle
NextP == ProbeInternet \/ HttpProbe
SpecProbe == InitP /\ [][NextP]_vars

\* getAllDevices over every collection of at most MaxDevices devices; the
\* await of a page resumes when the controller answers
InitG == /\ pg \in { [NoPaging EXCEPT !.col = c] : c \in Collections }
         /\ clients = <<>> /\ bcLast = NoBroadcast
         /\ prIn = NoTargets /\ prOut = NoProbe /\ par = NoPar
         /\ InitServerIdle /\ InitWanIdle /\ InitMainIdle /\ InitObsIdle /\ InitClientIdle
NextG == GetAllDevices \/ PageAnswer \/ DeviceRemoved
SpecPages == InitG /\ [][NextG]_vars /\ WF_vars(PageAnswer)

\* the parallel requests of main's loop on a new client, in each mode
InitPar == /\ InitClient /\ InitServerIdle /\ InitWanIdle /\ InitMainIdle /\ InitObsIdle
           /\ InitFnIdle
NextPar == ParStart \/ ParLoginAnswer \/ ParFetchAnswer
SpecPar == InitPar /\ [][NextPar]_vars


(***************************************************************************)
(* The properties                                                          *)
(***************************************************************************)
\* the failures counted so far are all the cycles completed so far, and the
\* entries still in the history are cycles that learnt nothing of the WAN link
\* and whose probe failed
FailRun(k) ==
    /\ Len(inserted) = k /\ fail = k
    /\ \A i \in 1..Len(history) : history[i].wanUp = "null" /\ ~history[i].probe.ok

\* C1: a cycle whose reconciled wanUp is false leaves the state DOWN and both
\* counters at zero, and records the reason WAN_LINK_DOWN, whatever the probe
\* answered and whatever the state and the counters were before
C1_WanDownForcesDown ==
    (Len(history) > 0 /\ history[1].wanUp = "false")
        => /\ state = "DOWN" /\ fail = 0 /\ succ = 0
           /\ history[1].state = "DOWN"
           /\ history[1].reason = "WAN_LINK_DOWN"
           /\ ret.next = "DOWN"

\* the cycle before had counted a failure, and this one's probe succeeded
C1_Witness ==
    /\ Len(history) > 1
    /\ history[1].wanUp = "false" /\ history[1].probe.ok
    /\ history[2].reason = "PROBE_FAIL_SOFT"
    /\ state = "DOWN"

\* the same of HealthStateMachine.update in the standalone loop
C1_MainWanDownForcesDown ==
    (Len(mainTrace) > 0 /\ ~mainTrace[Len(mainTrace)].err
                        /\ mainTrace[Len(mainTrace)].wanUp = "false")
        => smState = "DOWN" /\ failCount = 0 /\ successCount = 0

\* the state a failing cycle leaves when it is the n-th failure in a row, as
\* the claim has it
ClaimedAfterFails(n) == IF n >= downAfterFails THEN "DOWN" ELSE "DEGRADED"

\* the state before the cycle of history[i], where the history still shows it
BeforeKnown(i) == i < Len(history) \/ Len(inserted) = Len(history)
Before(i) == IF i < Len(history) THEN history[i + 1].state ELSE "UNKNOWN"

\* C2: with thresholds 4 and 2 and wanUp true, the first failure after a counter
\* of zero leaves the state as it was, the second and the third yield DEGRADED
\* and the fourth DOWN
C2_FailureSteps ==
    \A i \in 1..Len(history) :
        LET e == history[i]
        IN  (e.wanUp = "true" /\ ~e.probe.ok)
                => /\ e.note[1] = "failCount"
                   /\ IF e.note[2] = 1
                      THEN BeforeKnown(i) => e.state = Before(i)
                      ELSE e.state = ClaimedAfterFails(e.note[2])

\* the fourth failure in a row, with wanUp true in each of the cycles shown
C2_Witness ==
    /\ Len(history) = maxHistory
    /\ \A i \in 1..Len(history) : history[i].wanUp = "true" /\ ~history[i].probe.ok
    /\ history[1].note = <<"failCount", downAfterFails>>
    /\ state = "DOWN"

\* C2 as the claim states it: every one of the first three failures yields
\* DEGRADED
C2_Original ==
    \A i \in 1..Len(history) :
        LET e == history[i]
        IN  (e.wanUp = "true" /\ ~e.probe.ok) => e.state = ClaimedAfterFails(e.note[2])

\* C3: from UNKNOWN, one cycle whose probe succeeds and whose wanUp is true or
\* unknown yields OK, for every OK_AFTER_SUCCESSES
C3_FirstSuccessFromUnknown ==
    (Len(history) > 0 /\ ret.ts = history[1].ts /\ ret.prev = "UNKNOWN"
                      /\ history[1].probe.ok /\ history[1].wanUp # "false")
        => /\ state = "OK" /\ history[1].state = "OK"
           /\ ret.next = "OK" /\ ret.changed

\* the threshold is above one and the cycle is the first success
C3_Witness ==
    /\ okAfterSucc = 3
    /\ Len(history) > 0 /\ ret.ts = history[1].ts /\ ret.prev = "UNKNOWN"
    /\ history[1].probe.ok /\ history[1].wanUp = "null"
    /\ succ = 1 /\ state = "OK"

\* the states of the run of C4, cycle by cycle
RunState(k) ==
    IF k <= 1 THEN "UNKNOWN"
    ELSE IF k < downAfterFails THEN "DEGRADED" ELSE "DOWN"
RunReason(k) ==
    IF k <= 1 THEN "PROBE_FAIL_SOFT"
    ELSE IF k < downAfterFails THEN "PROBE_DEGRADED" ELSE "PROBE_DOWN"

\* C4: from the initial state with thresholds 2/4/2, cycles that learn nothing
\* of the WAN link and whose probe fails leave UNKNOWN (a soft record),
\* DEGRADED, DEGRADED and DOWN
C4_FourFailuresRun ==
    \A k \in 1..downAfterFails :
        FailRun(k)
            => /\ state = RunState(k)
               /\ \A i \in 1..Len(history) :
                      /\ history[i].state = RunState(k - i + 1)
                      /\ history[i].reason = RunReason(k - i + 1)

C4_Witness ==
    /\ FailRun(downAfterFails)
    /\ state = "DOWN" /\ Len(history) = maxHistory
    /\ okAfterSucc = okAfterSuccDefault

C5_MainAlertsInRun ==
    (/\ Len(mainTrace) = downAfterFails
     /\ \A i \in 1..Len(mainTrace) :
            ~mainTrace[i].err /\ mainTrace[i].wanUp = "null" /\ ~mainTrace[i].probeOk)
        => /\ smState = "DEGRADED"
           /\ Len(alerts) = 2
           /\ alerts[1].cycle = 1 /\ alerts[1].state = "UNKNOWN"
           /\ alerts[2].cycle = PROBE_FAILS_FOR_DEGRADED /\ alerts[2].state = "DEGRADED"

\* C6: the history never holds more than maxHistory entries and holds the
\* latest pushes, the newest first; after maxHistory + 1 pushes the first
\* entry pushed is gone
C6_HistoryBounded ==
    /\ Len(history) <= maxHistory
    /\ Len(history) = Min(maxHistory, Len(inserted))
    /\ \A i \in 1..Len(history) : history[i].ts = inserted[Len(inserted) - i + 1]
    /\ Len(inserted) = maxHistory + 1
           => \A i \in 1..Len(history) : history[i].ts # inserted[1]

C6_Witness ==
    /\ Len(inserted) = maxHistory + 1
    /\ Len(history) = maxHistory
    /\ history[1].ts = inserted[maxHistory + 1]

\* C7: the entries of the history are in strictly decreasing order of ts
C7_HistoryDescending == Descending(history)

\* C8: when the gateway's own link-up field is false and the topology groups
\* resolve to up, the reconciled wanUp is true: the groups are read last and
\* replace the device's reading whenever they resolve
ExplicitDown(devRes) ==
    /\ ~devRes.err
    /\ pickGateway(devRes.devices) # None
    /\ FirstBool(Direct(pickGateway(devRes.devices)[1])) = "false"
TopologyUp(grpRes) ==
    /\ GroupsOf(grpRes) # None
    /\ readWanStatusFromGroups(GroupsOf(grpRes)[1]).up = "true"

C8_TopologyOverridesDevice ==
    (rcOut.done /\ ExplicitDown(rcIn.dev) /\ TopologyUp(rcIn.grp))
        => rcOut.wanUp = "true"

C8_Witness ==
    /\ rcOut.done /\ ExplicitDown(rcIn.dev) /\ TopologyUp(rcIn.grp)
    /\ readWanUp(pickGateway(rcIn.dev.devices)) = "false"
    /\ rcOut.wanUp = "true"

\* C8 as the claim states it: the device's explicit false wins
C8_Original ==
    (rcOut.done /\ ExplicitDown(rcIn.dev) /\ TopologyUp(rcIn.grp))
        => rcOut.wanUp = "false"

\* C9: merging an entry into the observer's history a second time changes
\* nothing
C9_MergeIdempotent ==
    \A e \in ObsEntries :
        tickMerge(tickMerge(obsData.history, e), e) = tickMerge(obsData.history, e)

\* a tick arrived whose entry the history already held
C9_Witness ==
    /\ lastEv = "tick_dup"
    /\ Len(obsData.history) > 0
    /\ \E i \in 1..Len(obsData.history) : obsData.history[i].ms = None

\* C10: between two opens the delays of scheduleReconnect never decrease, no
\* delay exceeds 15000 and the attempt counter never exceeds 8
C10_BackoffBounded ==
    /\ lastDelay.prev <= lastDelay.cur
    /\ lastDelay.cur <= MaxDelay
    /\ \A i \in 1..Len(timer) : timer[i] <= MaxDelay
    /\ wsRetry <= RetryCap

C10_Witness ==
    /\ wsRetry = RetryCap
    /\ lastDelay = [prev |-> MaxDelay, cur |-> MaxDelay]
    /\ Len(timer) > 0

\* the first scheduleReconnect() after an open that followed `n` failures
FirstAfterOpen(n) ==
    /\ openedAt = n
    /\ lastDelay.prev = 0 /\ lastDelay.cur > 0

\* C11: when the socket has opened the attempt counter is zero, and the first
\* reconnection scheduled after that open waits 1000 ms, the base delay of
\* 500 ms doubled once and the least delay scheduleReconnect ever yields,
\* whatever the number of failures before the open
C11_ResetAfterOpen ==
    /\ lastEv = "open" => wsRetry = 0
    /\ \A n \in 0..RetryCap :
           FirstAfterOpen(n) => lastDelay.cur = BaseDelay * 2 /\ wsRetry = 1
    /\ lastDelay.cur > 0 => lastDelay.cur >= BaseDelay * 2

\* the open came after the counter had reached its cap
C11_Witness ==
    /\ FirstAfterOpen(RetryCap)
    /\ lastDelay.cur = BaseDelay * 2
    /\ lastEv = "close"

\* C11 as the claim states it: that first reconnection waits the base delay
C11_Original ==
    /\ lastEv = "open" => wsRetry = 0
    /\ \A n \in 0..RetryCap : FirstAfterOpen(n) => lastDelay.cur = BaseDelay

\* C12: one call of request() re-authenticates at most once and sends the call
\* at most twice
C12_OneRetry ==
    /\ call.relogins <= 1 /\ call.sends <= 2
    /\ lastCall.relogins <= 1 /\ lastCall.sends <= 2

\* the attempts of the ensureLogin() that ran last in mode auto
AutoLogin == lastLogin.ran /\ lastLogin.mode = "auto"

C13_WitnessLegacy ==
    /\ AutoLogin /\ lastLogin.ok
    /\ Len(lastLogin.tried) = 2
    /\ effectiveMode = "legacy" /\ baseUrlEffective = "base8443"

\* C14: at no time are two executions of Monitor.tick in progress
C14_NoOverlap == Cardinality(inflight) <= 1

\* C15: whatever fails in a cycle (the device listing, the WAN-group listing,
\* the probe, a broadcast, the append to the event log), the process that runs
\* the polling loop keeps running
C15_LoopSurvives == proc = "running"

\* C16: a cycle whose device listing failed pushes one entry that carries the
\* error, with wanUp unknown, and sends the tick message of that entry
C16_ControllerFailureCycle ==
    [][(Len(inserted') = Len(inserted) + 1 /\ history'[1].unifiError)
          => /\ history'[1].ts = ret'.ts
             /\ history'[1].wanUp = "null"
             /\ \E i \in 1..Len(sent') :
                    sent'[i].type = "tick" /\ sent'[i].ts = history'[1].ts]_vars

AlertsOf(i) == {j \in 1..Len(alerts) : alerts[j].cycle = i}

C18_AuditOnlyOnFallOrRestore ==
    [][audit' # audit
          => /\ Len(audit') = Len(audit) + 1
             /\ SubSeq(audit', 1, Len(audit)) = audit
             /\ ret'.changed /\ ret'.prev # ret'.next
             /\ LET r == audit'[Len(audit')]
                IN  /\ r.prev = ret'.prev /\ r.next = ret'.next
                    /\ \/ r.kind = "INTERNET_DOWN" /\ r.next = "DOWN"
                       \/ r.kind = "INTERNET_RESTORED" /\ r.prev = "DOWN" /\ r.next = "OK"]_vars

C18_Witness ==
    /\ Len(audit) = 2
    /\ audit[1].kind = "INTERNET_DOWN" /\ audit[2].kind = "INTERNET_RESTORED"
    /\ ret.changed /\ ret.prev = "DOWN" /\ ret.next = "OK"

\* C19: the first message sent to an observer's socket is the snapshot, with
\* the state and the whole history of the moment it connected; no tick and no
\* state_change goes to it before
C19_SnapshotFirst ==
    /\ wsClient.first \in {"none", "snapshot"}
    /\ (wsClient.in /\ wsClient.ev = "connect" /\ wsClient.ready /\ ~wsClient.broken)
           => wsClient.recv = <<SnapshotMsg(state, history)>>

\* an observer that connected while a cycle was running, and then got that
\* cycle's state_change and tick
C19_Witness ==
    /\ wsClient.in /\ wsClient.first = "snapshot" /\ wsClient.ev = "cycle"
    /\ Len(wsClient.recv) = 2
    /\ wsClient.recv[1].type = "state_change" /\ wsClient.recv[2].type = "tick"

\* C20: a cycle that completed has sent a connected observer the tick message
\* of its entry and the state
C20_TickAfterEveryCycle ==
    (wsClient.in /\ wsClient.ready /\ ~wsClient.broken /\ wsClient.ev = "cycle")
        => \E i \in 1..Len(wsClient.recv) :
               /\ wsClient.recv[i].type = "tick"
               /\ wsClient.recv[i].ts = ret.ts
               /\ wsClient.recv[i].next = state

\* a step in which a cycle completes
CycleDone == inflight' # inflight /\ inflight' \subseteq inflight
StateChanges(msgs) == {i \in 1..Len(msgs) : msgs[i].type = "state_change"}

\* C21: a cycle sends a state_change if and only if it leaves a state other
\* than the one it found, and then one only, whose prev is the state found
\* and whose next is the state left
C21_ChangeNotified ==
    [][CycleDone
          => /\ (StateChanges(sent') # {}) <=> (state' # state)
             /\ Cardinality(StateChanges(sent')) <= 1
             /\ \A i \in StateChanges(sent') :
                    sent'[i].prev = state /\ sent'[i].next = state']_vars

C21_Witness ==
    /\ ret.changed /\ ret.prev = "DEGRADED" /\ ret.next = "DOWN"
    /\ Len(sent) = 2 /\ sent[1].type = "state_change"
    /\ sent[1].prev = "DEGRADED" /\ sent[1].next = "DOWN"

\* C22: a cycle, whichever branch it takes, puts one entry at the head of the
\* history, above the entries that were there, and the entry's state is the
\* state the cycle leaves
C22_OneEntryPerCycle ==
    [][CycleDone
          => /\ Len(history') = Min(maxHistory, Len(history) + 1)
             /\ \A i \in 2..Len(history') : history'[i] = history[i - 1]
             /\ \E t \in inflight \ inflight' : history'[1].ts = t.ts
             /\ history'[1].state = state'
             /\ history'[1].reason \in {"WAN_LINK_DOWN", "PROBE_DOWN", "PROBE_DEGRADED",
                                        "PROBE_FAIL_SOFT", "PROBE_OK", "PROBE_OK_SOFT"}
             /\ Len(inserted') = Len(inserted) + 1]_vars

\* the five branches have been taken in one behaviour or another: here the
\* history holds a confirmed OK above a soft success
C22_Witness ==
    /\ Len(history) = 2
    /\ history[1].reason = "PROBE_OK" /\ history[2].reason = "PROBE_OK_SOFT"
    /\ state = "OK" /\ Len(inserted) >= 3

SocketsOf(cl) == {cl[i] : i \in 1..Len(cl)}
SendsTo(ws) == {j \in 1..Len(bcLast.sends) : bcLast.sends[j].id = ws.id}

\* C23: in a broadcast every socket of the set that is open is sent the
\* message once and stays in the set, wherever it stands among the others; a
\* socket whose send throws is tried once and is out of the set afterwards
C23_FailedSendDropsOnlyThatObserver ==
    /\ SocketsOf(bcLast.after) \subseteq SocketsOf(bcLast.before)
    /\ \A ws \in SocketsOf(bcLast.before) :
           /\ ws.kind = "open"
                  => /\ Cardinality(SendsTo(ws)) = 1
                     /\ \A j \in SendsTo(ws) : bcLast.sends[j].ok
                     /\ ws \in SocketsOf(bcLast.after)
           /\ ws.kind = "dead"
                  => /\ Cardinality(SendsTo(ws)) = 1
                     /\ \A j \in SendsTo(ws) : ~bcLast.sends[j].ok
                     /\ ws \notin SocketsOf(bcLast.after)
           /\ ws.kind = "closing"
                  => SendsTo(ws) = {} /\ ws \in SocketsOf(bcLast.after)

\* a dead socket visited first, an open one after it
C23_Witness ==
    /\ Len(bcLast.before) = 2
    /\ bcLast.before[1].kind = "dead" /\ bcLast.before[2].kind = "open"
    /\ bcLast.after = <<bcLast.before[2]>>
    /\ Len(bcLast.sends) = 2 /\ bcLast.sends[2].ok

ProbedUrls == IF prOut.by = "probeInternet" THEN UrlsOfInternet(prIn) ELSE UrlsOfHttp(prIn)
OkTargets == {i \in 1..Len(ProbedUrls) : ProbedUrls[i].answer = "ok"}
FirstOkTarget == CHOOSE i \in OkTargets : \A j \in OkTargets : i <= j

\* C24: the probe fetches the targets in list order up to the first that
\* answers with success, which it returns, and no target after it; targets
\* that fail or time out are passed over; with no successful target it has
\* fetched them all and returns failure, the first url of the list, no latency
C24_ProbeShortCircuits ==
    prOut.by # "none"
        => IF OkTargets # {}
           THEN /\ prOut.ok /\ prOut.url = ProbedUrls[FirstOkTarget].url
                /\ prOut.fetched = [i \in 1..FirstOkTarget |-> ProbedUrls[i].url]
           ELSE /\ ~prOut.ok /\ prOut.ms = None
                /\ prOut.fetched = [i \in 1..Len(ProbedUrls) |-> ProbedUrls[i].url]
                /\ Len(ProbedUrls) > 0 => prOut.url = ProbedUrls[1].url
                /\ Len(ProbedUrls) = 0 => prOut.url = <<>>

\* a target that times out, then a successful one, then one never fetched
C24_Witness ==
    /\ prOut.by = "probeInternet" /\ Len(prIn.answers) = 3
    /\ prIn.answers[1] = "timeout" /\ prIn.answers[2] = "ok" /\ prIn.answers[3] = "ok"
    /\ prOut.ok /\ prOut.url = <<2>> /\ prOut.fetched = << <<1>>, <<2>> >>

\* every target failing
C24_WitnessAllFail ==
    /\ prOut.by = "httpProbe" /\ Len(prIn.answers) = 3
    /\ \A i \in 1..3 : prIn.answers[i] # "ok"
    /\ ~prOut.ok /\ prOut.url = <<1>> /\ Len(prOut.fetched) = 3

EntryOf(k) == {i \in 1..Len(inserted) : inserted[i] = k}

\* C25: every cycle that was started completes and pushes its entry
C25_EveryCycleCompletes ==
    \A k \in 1..MaxTicks : (started >= k) ~> (EntryOf(k) # {})

NoSocket == alive /\ sock = "none"

\* C26: while the observer is alive and has no socket, its status is
\* reconnecting and a retry is pending, and its timeout does expire and call
\* connectWs again (unless the page is left first), however many attempts
\* have failed before
C26_KeepsReconnecting ==
    /\ [](NoSocket => (wsStatus = "reconnecting" /\ Len(timer) > 0))
    /\ (NoSocket /\ lastEv = "close") ~> (lastEv \in {"timer", "timer_again"} \/ ~alive)
    /\ (NoSocket /\ lastEv = "timer") ~> (lastEv # "timer" \/ ~alive)
    /\ (NoSocket /\ lastEv = "timer_again") ~> (lastEv # "timer_again" \/ ~alive)

\* the attempts have failed up to the cap of the counter, and one more is pending
C26_Witness ==
    /\ alive /\ sock = "none" /\ wsRetry = RetryCap
    /\ timer = <<MaxDelay>> /\ wsStatus = "reconnecting"
    /\ lastEv = "timer_again"

\* C27: the standalone loop posts one alert in each cycle that changes the
\* state and none in a cycle that leaves it as it was
C27_OneAlertPerTransition ==
    \A i \in 1..Len(mainTrace) :
        Cardinality(AlertsOf(i)) = IF mainTrace[i].prev # mainTrace[i].state THEN 1 ELSE 0

\* C28: the observer's history never holds more than its cap
C28_ObserverHistoryCapped == Len(obsData.history) <= ObsCap

\* C29: a device or health listing that is on its way to the controller
\* carries the path root of the session's effective dialect: the
\* /proxy/network root if and only if the effective dialect is UniFi OS
C29_PathFollowsDialect ==
    call.pc = "fetch" => call.path = PathFor(effectiveMode)

\* the items of the first n pages, in page order
RECURSIVE ItemsOf(_, _)
ItemsOf(pages, n) == IF n = 0 THEN <<>> ELSE ItemsOf(pages, n - 1) \o pages[n].data

\* the pages were asked for at offsets 0, limit, 2*limit, ... and each of the
\* first n holds at least `limit` items
FullPages(pages, n) ==
    /\ \A i \in 1..Len(pages) : pages[i].offset = (i - 1) * limit
    /\ \A i \in 1..n : Len(pages[i].data) >= limit

\* C30: getAllDevices asks for the pages at offsets 0, limit, 2*limit, ...,
\* stops after the first page that holds fewer than `limit` items and returns
\* the items of all pages in page order; a collection served consistently is
\* returned whole, every device once, after size / limit + 1 requests; and a
\* running call comes to an end
C30_AllPagesOnce ==
    /\ [](/\ pg.pc = "loop" => /\ FullPages(pg.pages, Len(pg.pages))
                               /\ pg.out = ItemsOf(pg.pages, Len(pg.pages))
                               /\ pg.offset = Len(pg.pages) * limit
          /\ pg.pc = "returned"
                 => /\ Len(pg.pages) >= 1
                    /\ FullPages(pg.pages, Len(pg.pages) - 1)
                    /\ Len(pg.pages[Len(pg.pages)].data) < limit
                    /\ pg.out = ItemsOf(pg.pages, Len(pg.pages))
          /\ pg.pc = "rejected" => ~pg.consistent
          /\ pg.consistent => Len(pg.pages) <= (Len(pg.col) \div limit) + 1
          /\ (pg.pc = "returned" /\ pg.consistent)
                 => /\ pg.out = pg.col
                    /\ Len(pg.pages) = (Len(pg.col) \div limit) + 1)
    /\ (pg.pc = "loop") ~> (pg.pc \in {"returned", "rejected"})

\* a collection of two full pages was returned whole after a third, empty page
C30_Witness ==
    /\ pg.pc = "returned" /\ pg.consistent
    /\ Len(pg.col) = 2 * limit
    /\ Len(pg.pages) = 3 /\ pg.pages[3].data = <<>>
    /\ pg.out = pg.col

\* the devices of the inventory, none when the listing failed
Inventory == IF rcIn.dev.err THEN <<>> ELSE rcIn.dev.devices

\* the id of the first device of the inventory among the positions `hits`
FirstIdAt(hits) ==
    IF hits = {} THEN "none"
    ELSE Inventory[CHOOSE i \in hits : \A j \in hits : i <= j].id

ByType(t)  == {i \in 1..Len(Inventory) : Inventory[i].type = t}
ByModel    == {i \in 1..Len(Inventory) : IsModelUSG(Inventory[i])}
ByName     == {i \in 1..Len(Inventory) : IsNameUSG(Inventory[i])}
ByLine     == {i \in 1..Len(Inventory) : IsLineGateway(Inventory[i])}

\* C31: gateway selection returns the first device whose type marks it as the
\* gateway; when there is none, the first device whose model matches; when no
\* model matches, the first whose name matches (server only); when no name
\* matches, the first whose product line matches (server only); else none.
\* The strings rank by field, not by the device's place in the list
C31_GatewayByFieldRank ==
    rcOut.done =>
        /\ rcOut.gateway = IF ByType("gateway") # {} THEN FirstIdAt(ByType("gateway"))
                           ELSE IF ByModel # {} THEN FirstIdAt(ByModel)
                           ELSE IF ByName # {} THEN FirstIdAt(ByName)
                           ELSE FirstIdAt(ByLine)
        /\ rcOut.usg = IF ByType("ugw") # {} THEN FirstIdAt(ByType("ugw"))
                       ELSE FirstIdAt(ByModel)

\* a device matching by name stands before the one matching by model, and the
\* one matching by model is selected
C31_Witness ==
    /\ rcOut.done /\ ByType("gateway") = {}
    /\ ByName # {} /\ ByModel # {}
    /\ \E i \in ByName : \A j \in ByModel : i < j
    /\ rcOut.gateway = FirstIdAt(ByModel)
    /\ rcOut.gateway # FirstIdAt(ByName)

\* C31 as the claim states it: without a device of gateway type, the first
\* device in list order that matches by model, name or product line
C31_Original ==
    (rcOut.done /\ ByType("gateway") = {})
        => rcOut.gateway = FirstIdAt(ByModel \cup ByName \cup ByLine)

\* what the WAN groups of the cycle resolve to, "null" when the request
\* failed, the answer holds no list, or the primary group says nothing
GroupsVerdict ==
    IF GroupsOf(rcIn.grp) = None THEN "null"
    ELSE readWanStatusFromGroups(GroupsOf(rcIn.grp)[1]).up

\* C32: when no gateway can be selected from the inventory of a cycle, the
\* device reading is unknown, and the verdict of the cycle is what the WAN
\* groups resolve to: unknown only if they do not resolve either
C32_NoGatewayLeavesGroups ==
    (rcOut.done /\ rcOut.gateway = "none") => rcOut.wanUp = GroupsVerdict

\* no gateway among the devices, and the groups made the verdict true
C32_Witness ==
    /\ rcOut.done /\ rcOut.gateway = "none"
    /\ ~rcIn.dev.err /\ Len(rcIn.dev.devices) > 0
    /\ GroupsVerdict = "true" /\ rcOut.wanUp = "true"

\* C32 as the claim states it: without a gateway the verdict is unknown,
\* whatever the other sources report
C32_Original ==
    (rcOut.done /\ rcOut.gateway = "none") => rcOut.wanUp = "null"

\* the list of groups the cycle read, empty when the answer held none
GroupsRead == IF GroupsOf(rcIn.grp) = None THEN <<>> ELSE GroupsOf(rcIn.grp)[1]

\* the positions of the groups that have a numeric priority
Numeric == {i \in 1..Len(GroupsRead) :
                GroupsRead[i].priority \notin {None, NullValue}}

\* the earliest group of the lowest numeric priority
LowestNumeric ==
    GroupsRead[CHOOSE i \in Numeric :
                   /\ \A j \in Numeric :
                          GroupsRead[i].priority[1] <= GroupsRead[j].priority[1]
                   /\ \A j \in Numeric :
                          j < i => GroupsRead[j].priority[1] > GroupsRead[i].priority[1]]

\* C33: the primary WAN group is the entry whose id is WAN if there is one;
\* else the earliest entry of the lowest numeric priority, entries without a
\* numeric priority ranking after all that have one; else the first entry;
\* and none for an empty list or an answer without a list
C33_PrimaryGroup ==
    rcOut.done =>
        LET byId == {i \in 1..Len(GroupsRead) : IsIdWAN(GroupsRead[i])}
        IN  rcOut.primary =
                IF Len(GroupsRead) = 0 THEN None
                ELSE IF byId # {}
                     THEN Some(GroupsRead[CHOOSE i \in byId : \A j \in byId : i <= j])
                ELSE IF Numeric # {} THEN Some(LowestNumeric)
                ELSE Some(GroupsRead[1])

\* the cycle that completes in this step read a WAN link that is not down, its
\* probe failed and the fail counter stays below the degraded threshold
SoftFail ==
    /\ CycleDone /\ history'[1].wanUp # "false"
    /\ ~history'[1].probe.ok /\ fail + 1 < degradedAfterFails

\* the same with a probe that succeeded, in a state other than UNKNOWN, and a
\* success counter that stays below the ok threshold
SoftOk ==
    /\ CycleDone /\ history'[1].wanUp # "false"
    /\ history'[1].probe.ok /\ state # "UNKNOWN" /\ succ + 1 < okAfterSucc

\* C34: a soft cycle (the WAN link not reported down; a failed probe with the
\* fail counter below the degraded threshold, or a successful probe outside
\* UNKNOWN with the success counter below the ok threshold) leaves the state
\* as it was, appends one entry with that state and the reason
\* PROBE_FAIL_SOFT, respectively PROBE_OK_SOFT, sends no state_change and
\* appends nothing to the event log
C34_SoftCycleKeepsState ==
    [][(SoftFail \/ SoftOk)
          => /\ state' = state
             /\ Len(inserted') = Len(inserted) + 1
             /\ history'[1].state = state
             /\ history'[1].reason = IF SoftFail THEN "PROBE_FAIL_SOFT" ELSE "PROBE_OK_SOFT"
             /\ ~ret'.changed /\ ret'.prev = state /\ ret'.next = state
             /\ StateChanges(sent') = {}
             /\ audit' = audit /\ proc' = proc]_vars

\* a first success after the link was down: the state is still DOWN
C34_Witness ==
    /\ state = "DOWN" /\ ~ret.changed
    /\ Len(history) = 2
    /\ history[1].reason = "PROBE_OK_SOFT" /\ history[1].state = "DOWN"
    /\ history[2].reason = "WAN_LINK_DOWN"
    /\ Len(sent) = 1 /\ sent[1].type = "tick"
    /\ Len(audit) = 1

\* C35: of the fail counter and the success counter at most one is above
\* zero, in the server's machine and in the standalone loop's
C35_OneCounterAtATime ==
    /\ fail = 0 \/ succ = 0
    /\ failCount = 0 \/ successCount = 0

\* a failure that followed a success: the success counter was cleared
C35_Witness ==
    /\ fail = 1 /\ succ = 0
    /\ Len(history) = 2
    /\ history[1].reason = "PROBE_FAIL_SOFT" /\ history[2].reason = "PROBE_OK"

\* C36: every outage opened in the event log is closed: while the process
\* runs and the state is OK, the last record of a log that is not empty is an
\* INTERNET_RESTORED, and no INTERNET_DOWN follows another directly
C36_OutagesClosed ==
    /\ (proc = "running" /\ state = "OK" /\ inflight = {} /\ audit # <<>>)
           => audit[Len(audit)].kind = "INTERNET_RESTORED"
    /\ \A i \in 1..(Len(audit) - 1) :
           ~(audit[i].kind = "INTERNET_DOWN" /\ audit[i + 1].kind = "INTERNET_DOWN")

\* C37: the requests that one pass of the loop issues together authenticate
\* once: no two logins wait for their answer at the same time, and in a pass
\* without a 401 at most one login writes the session
C37_LoginOnce ==
    /\ Cardinality(LoginsInFlight) <= 1
    /\ par.relogins = 0 => par.written <= 1

\* C38: an entry that a tick has just put at the head of the observer's
\* history is still in the history after the answer of a load() that was
\* started before that tick has been applied: the history still holds an
\* entry of that cycle
C38_MergedEntryStays ==
    [][(lastEv = "tick_new" /\ lastEv' = "load")
          => \E i \in 1..Len(obsData'.history) :
                 obsData'.history[i].ts = obsData.history[1].ts]_vars

\* C39: a cycle that changes the state to DOWN with the reason PROBE_DOWN
\* finds the state DEGRADED and the fail counter one below downAfterFails;
\* the cycles before it that the history still shows are failures of the
\* probe, counted one by one, none of them with the WAN link down
C39_ProbeDownFromDegraded ==
    [][(CycleDone /\ history'[1].reason = "PROBE_DOWN" /\ state' # state)
          => /\ state = "DEGRADED" /\ state' = "DOWN"
             /\ degradedAfterFails < downAfterFails
             /\ fail = downAfterFails - 1 /\ fail' = downAfterFails /\ succ = 0
             /\ ~history'[1].probe.ok /\ history'[1].wanUp # "false"
             /\ Len(inserted') >= downAfterFails
             /\ \A i \in 1..Min(Len(history), downAfterFails - 1) :
                    /\ ~history[i].probe.ok /\ history[i].wanUp # "false"
                    /\ history[i].note = <<"failCount", downAfterFails - i>>]_vars

\* the fourth failure in a row has taken the state from DEGRADED to DOWN
C39_Witness ==
    /\ Len(history) = 2
    /\ history[1].reason = "PROBE_DOWN" /\ history[1].note = <<"failCount", downAfterFails>>
    /\ history[2].reason = "PROBE_DEGRADED"
    /\ ret.changed /\ ret.prev = "DEGRADED" /\ ret.next = "DOWN"
    /\ fail = downAfterFails /\ state = "DOWN"

\* the cycle that completes in this step was started by the timer
TimerCycleDone == CycleDone /\ \E t \in inflight \ inflight' : t.timer

\* C40: a cycle of the timer that changes the state sends an observer that is
\* connected and ready before and after it two messages and no other: the
\* state_change of the cycle's entry, then the tick of the same entry
C40_ChangeBeforeTick ==
    [][(/\ TimerCycleDone /\ state' # state
        /\ wsClient.in /\ wsClient.ready
        /\ wsClient'.in /\ wsClient'.ready)
          => wsClient'.recv = << StateChangeMsg(state, state', history'[1]),
                                 TickMsg(state', history'[1]) >>]_vars

\* an observer got the state_change and then the tick of the cycle that
\* ended last, which left UNKNOWN for OK
C40_Witness ==
    /\ wsClient.in /\ wsClient.ready /\ wsClient.ev = "cycle"
    /\ ret.changed /\ ret.prev = "UNKNOWN" /\ ret.next = "OK"
    /\ Len(wsClient.recv) = 2
    /\ wsClient.recv[1].type = "state_change" /\ wsClient.recv[1].ts = ret.ts
    /\ wsClient.recv[2].type = "tick" /\ wsClient.recv[2].ts = ret.ts
    /\ Cardinality(inflight) = 1

====
